---- MODULE Spec2Model ----
(***************************************************************************)
(* Cognitive-complexity analysis of askpt/code-metrics.                    *)
(*                                                                         *)
(* A document is held as the syntax tree tree-sitter returns for it: a     *)
(* sequence of nodes in pre-order, each with its kind (type), the lexeme   *)
(* it carries when it is a token (text), the index of its parent (0 for    *)
(* the root) and its 0-based start position (row, col).  The two language  *)
(* analyzers, the position normalizer and the dispatcher are operators     *)
(* over such trees; the specifications apply them to documents that are    *)
(* opened, edited and analyzed.                                            *)
(***************************************************************************)
EXTENDS Integers, Sequences, FiniteSets, TLC

VARIABLES
  tree,        \* syntax tree of the current document
  grammar,     \* grammar of the current document: "csharp" or "go"
  edits,       \* nodes appended to the document since it was opened
  languageId,  \* languageId of the latest analyzeFile call on the document
  raw,         \* what the language analyzer returned in the latest call
  out,         \* outcome of the latest analyzeFile call
  memo,        \* an earlier call that is kept to be repeated
  repeated,    \* the latest call repeated the call kept in memo
  config,      \* the cognitiveComplexity settings of the workspace
  document,    \* the text document the editor shows
  codeLenses,  \* outcome of the latest provideCodeLenses call
  status,      \* outcome of the latest getComplexityStatus call
  walk,        \* the analyzer in the middle of analyzeFunctions, step by step
  watcher      \* the configuration watcher of the registered provider

analyzerVars == <<tree, grammar, edits, languageId, raw, out, memo, repeated>>
hostVars == <<config, document, codeLenses, status>>
walkVars == <<walk>>
refreshVars == <<watcher>>
vars == <<tree, grammar, edits, languageId, raw, out, memo, repeated,
          config, document, codeLenses, status, walk, watcher>>

(***************************************************************************)
(* Bounds of the model.                                                    *)
(***************************************************************************)
MaxEdits == 2
MaxNodes == 9

(***************************************************************************)
(* Syntax trees.                                                           *)
(***************************************************************************)
Node(type, text, parent, row, col) ==
  [type |-> type, text |-> text, parent |-> parent, row |-> row, col |-> col]

Indices(t) == [k \in 1..Len(t) |-> k]

\* node.children, in order
Children(t, i) == SelectSeq(Indices(t), LAMBDA j : t[j].parent = i)

\* index of the last node of the subtree of i (its nodes are i..SubtreeEnd)
SubtreeEnd(t, i) ==
  LET S == { j \in i..Len(t) : \A k \in (i + 1)..j : t[k].parent >= i }
  IN  CHOOSE j \in S : \A k \in S : k <= j

\* the proper ancestors of i, nearest first
RECURSIVE Ancestors(_, _)
Ancestors(t, i) ==
  IF t[i].parent = 0 THEN << >> ELSE << t[i].parent >> \o Ancestors(t, t[i].parent)

\* the lexemes of the tokens inside node i, in source order
RECURSIVE LexemesFrom(_, _, _)
LexemesFrom(t, j, e) ==
  IF j > e THEN << >>
  ELSE (IF t[j].text = "" THEN << >> ELSE << t[j].text >>) \o LexemesFrom(t, j + 1, e)

Lexemes(t, i) == LexemesFrom(t, i, SubtreeEnd(t, i))

RECURSIVE Concat(_)
Concat(s) == IF s = << >> THEN "" ELSE Head(s) \o Concat(Tail(s))

\* sourceText.substring(node.startIndex, node.endIndex), without white space
NodeText(t, i) == Concat(Lexemes(t, i))

\* children.find(child => child.type in types): its index, 0 when undefined
FindChild(t, i, types) ==
  LET c == SelectSeq(Children(t, i), LAMBDA j : t[j].type \in types)
  IN  IF c = << >> THEN 0 ELSE Head(c)

\* node.startPosition / node.endPosition
StartRow(t, i) == t[i].row
StartCol(t, i) == t[i].col
EndRow(t, i) == t[SubtreeEnd(t, i)].row
EndCol(t, i) == t[SubtreeEnd(t, i)].col + 1

\* the analyzer's fields after `new`
FreshState == [nesting |-> 0, complexity |-> 0, details |-> << >>]

\* ResetState that leaves the details of the function before
ResetStateKeepsDetails(st) == [st EXCEPT !.nesting = 0, !.complexity = 0]

\* "Reset state for new function" of analyzeFunction
ResetState(st) == [st EXCEPT !.nesting = 0, !.complexity = 0, !.details = << >>]

Detail(increment, reason, line, column, nesting) ==
  [increment |-> increment, reason |-> reason, line |-> line,
   column |-> column, nesting |-> nesting]


(***************************************************************************)
(* C# analyzer (CSharpMetricsAnalyzer).                                    *)
(***************************************************************************)
CSharpFunctionKinds ==
  {"method_declaration", "constructor_declaration", "destructor_declaration",
   "operator_declaration", "conversion_operator_declaration",
   "accessor_declaration", "local_function_statement"}

CSharpIsFunctionDeclaration(t, i) == t[i].type \in CSharpFunctionKinds

\* the nearest enclosing class_declaration, 0 when there is none
CSharpEnclosingClass(t, i) ==
  LET c == SelectSeq(Ancestors(t, i), LAMBDA j : t[j].type = "class_declaration")
  IN  IF c = << >> THEN 0 ELSE Head(c)

CSharpGetFunctionName(t, i) ==
  IF t[i].type = "constructor_declaration"
  THEN LET cls == CSharpEnclosingClass(t, i)
           nm  == IF cls = 0 THEN 0 ELSE FindChild(t, cls, {"identifier"})
       IN  IF nm # 0 THEN NodeText(t, nm) \o " (constructor)" ELSE "<constructor>"
  ELSE IF t[i].type = "destructor_declaration" THEN "~<destructor>"
  ELSE LET nm == FindChild(t, i, {"identifier"})
       IN  IF nm # 0 THEN NodeText(t, nm) ELSE "<anonymous>"

\* the siblings that follow node i in its parent, in order
FollowingSiblings(t, i) ==
  IF t[i].parent = 0 THEN << >>
  ELSE SelectSeq(Children(t, t[i].parent), LAMBDA j : j > i)

CSharpCreateSyntheticBodyFromPreprocessor(t, p) == p

\* CSharpGetFunctionBody whose search of the siblings stops at nothing
CSharpGetFunctionBodyUnbounded(t, i) ==
  LET directBody == FindChild(t, i, {"block", "arrow_expression_clause"})
      kids       == Children(t, i)
      lastIsSemi == kids # << >> /\ t[kids[Len(kids)]].type = ";"
      stops      == SelectSeq(FollowingSiblings(t, i),
                      LAMBDA j : t[j].type = "preproc_if")
  IN  IF directBody # 0 THEN directBody
      ELSE IF lastIsSemi /\ stops # << >>
           THEN CSharpCreateSyntheticBodyFromPreprocessor(t, Head(stops))
           ELSE 0

\* the body node of function declaration i, 0 for null
CSharpGetFunctionBody(t, i) ==
  LET directBody == FindChild(t, i, {"block", "arrow_expression_clause"})
      kids       == Children(t, i)
      lastIsSemi == kids # << >> /\ t[kids[Len(kids)]].type = ";"
      stops      == SelectSeq(FollowingSiblings(t, i),
                      LAMBDA j : \/ t[j].type = "preproc_if"
                                 \/ CSharpIsFunctionDeclaration(t, j)
                                 \/ t[j].type \in {"class_declaration",
                                                   "interface_declaration"})
  IN  IF directBody # 0 THEN directBody
      ELSE IF lastIsSemi /\ stops # << >> /\ t[Head(stops)].type = "preproc_if"
           THEN CSharpCreateSyntheticBodyFromPreprocessor(t, Head(stops))
           ELSE 0

\* the text of the operator token of a binary expression, "" for null
CSharpGetBinaryOperator(t, i) ==
  LET op == FindChild(t, i, {"&&", "||", "binary_operator"})
  IN  IF op = 0 THEN "" ELSE NodeText(t, op)

\* Regular expressions of the recovery heuristics, over the lexemes of a node.
HasPair(lex, a, b) == \E k \in 1..(Len(lex) - 1) : lex[k] = a /\ lex[k + 1] = b

CountLogicalOps(lex) == Cardinality({k \in 1..Len(lex) : lex[k] \in {"&&", "||"}})

QuestionLexemes == {"?", "??", "?."}
ColonLexemes == {":", "::"}
Punctuation ==
  QuestionLexemes \cup ColonLexemes \cup
  {"(", ")", "{", "}", ";", ",", "&&", "||", "==", "=", "<", ">", "*", "#if", "#endif"}

\* /\?[^?]*:/
HasTernaryText(lex) ==
  \E j \in 1..Len(lex) : \E k \in (j + 1)..Len(lex) :
    /\ lex[j] \in QuestionLexemes
    /\ lex[k] \in ColonLexemes
    /\ \A m \in (j + 1)..(k - 1) : lex[m] \notin QuestionLexemes

\* /\?/
HasQuestionText(lex) == \E j \in 1..Len(lex) : lex[j] \in QuestionLexemes

\* /\w+\s*\?\s*[^?]+\s*:\s*[^:;]+/
HasTernaryDeclarationText(lex) ==
  \E j \in 1..Len(lex) : \E k \in (j + 2)..(Len(lex) - 1) :
    /\ lex[j] \notin Punctuation
    /\ lex[j + 1] \in {"?", "?."}
    /\ k > j + 2 \/ lex[j + 1] = "?."
    /\ \A m \in (j + 2)..(k - 1) : lex[m] \notin QuestionLexemes
    /\ lex[k] = ":"
    /\ lex[k + 1] \notin {":", "::", ";"}

CSharpHasMatchingColonInSiblings(t, i) ==
  IF t[i].parent = 0 THEN FALSE
  ELSE LET sibs == FollowingSiblings(t, i)
       IN  \E n \in 1..Len(sibs) :
             /\ n <= 2
             /\ \E m \in 1..Len(Lexemes(t, sibs[n])) : Lexemes(t, sibs[n])[m] = ":"
             /\ \A m \in 1..Len(Lexemes(t, sibs[n])) : Lexemes(t, sibs[n])[m] # "::"

B2N(b) == IF b THEN 1 ELSE 0

CSharpGetComplexityFromErrorNode(t, i) ==
  LET lex == Lexemes(t, i)
  IN  B2N(HasPair(lex, "if", "(")) + B2N(HasPair(lex, "while", "("))
      + B2N(HasPair(lex, "for", "(")) + B2N(HasPair(lex, "foreach", "("))
      + CountLogicalOps(lex)
      + B2N(HasTernaryText(lex)
            \/ (HasQuestionText(lex) /\ CSharpHasMatchingColonInSiblings(t, i)))
      + B2N(HasPair(lex, "try", "{")) + B2N(HasPair(lex, "catch", "("))

PreprocKinds ==
  {"preproc_if", "preproc_else", "preproc_elif", "preproc_region",
   "preproc_endregion", "preproc_define", "preproc_if_in_attribute_list"}

CSharpIsInPreprocessorBlock(t, i) ==
  \E n \in 1..Len(Ancestors(t, i)) : t[Ancestors(t, i)[n]].type \in PreprocKinds

\* CSharpGetComplexityFromMalformedDeclaration without the test for an
\* enclosing preprocessor block
CSharpGetComplexityFromMalformedDeclarationAnywhere(t, i) ==
  B2N(HasTernaryDeclarationText(Lexemes(t, i))) + CountLogicalOps(Lexemes(t, i))

CSharpGetComplexityFromMalformedDeclaration(t, i) ==
  IF ~CSharpIsInPreprocessorBlock(t, i) THEN 0
  ELSE LET lex == Lexemes(t, i)
       IN  B2N(HasTernaryDeclarationText(lex)) + CountLogicalOps(lex)

CSharpControlKinds ==
  {"if_statement", "while_statement", "for_statement", "foreach_statement",
   "switch_statement", "switch_expression", "try_statement", "catch_clause"}

\* CSharpGetComplexityIncrement that scores lambdas and jumps at every level
CSharpGetComplexityIncrementUnconditional(t, i, nesting) ==
  LET ty == t[i].type
  IN  IF ty \in CSharpControlKinds THEN 1
      ELSE IF ty = "binary_expression"
           THEN (IF CSharpGetBinaryOperator(t, i) \in {"&&", "||"} THEN 1 ELSE 0)
      ELSE IF ty = "conditional_expression" THEN 1
      ELSE IF ty \in {"lambda_expression", "anonymous_method_expression"} THEN 1
      ELSE IF ty \in {"continue_statement", "break_statement"} THEN 1
      ELSE IF ty = "goto_statement" THEN 1
      ELSE IF ty = "ERROR" THEN CSharpGetComplexityFromErrorNode(t, i)
      ELSE IF ty \in {"field_declaration", "variable_declaration"}
           THEN CSharpGetComplexityFromMalformedDeclaration(t, i)
      ELSE 0

\* the base increment of node i when the nesting counter is `nesting`
CSharpGetComplexityIncrement(t, i, nesting) ==
  LET ty == t[i].type
  IN  IF ty \in CSharpControlKinds THEN 1
      ELSE IF ty = "binary_expression"
           THEN (IF CSharpGetBinaryOperator(t, i) \in {"&&", "||"} THEN 1 ELSE 0)
      ELSE IF ty = "conditional_expression" THEN 1
      ELSE IF ty \in {"lambda_expression", "anonymous_method_expression"}
           THEN (IF nesting > 0 THEN 1 ELSE 0)
      ELSE IF ty \in {"continue_statement", "break_statement"}
           THEN (IF nesting > 0 THEN 1 ELSE 0)
      ELSE IF ty = "goto_statement" THEN 1
      ELSE IF ty = "ERROR" THEN CSharpGetComplexityFromErrorNode(t, i)
      ELSE IF ty \in {"field_declaration", "variable_declaration"}
           THEN CSharpGetComplexityFromMalformedDeclaration(t, i)
      ELSE 0

\* `${operator}` of a template literal: null is written as "null"
TemplateString(operator) == IF operator = "" THEN "null" ELSE operator

CSharpGetComplexityReasonFromErrorNode(t, i) ==
  LET lex == Lexemes(t, i)
  IN  IF HasPair(lex, "if", "(") THEN "if statement (in preprocessor block)"
      ELSE IF HasPair(lex, "while", "(") THEN "while loop (in preprocessor block)"
      ELSE IF HasPair(lex, "for", "(") THEN "for loop (in preprocessor block)"
      ELSE IF HasPair(lex, "foreach", "(") THEN "foreach loop (in preprocessor block)"
      ELSE IF CountLogicalOps(lex) > 0 THEN "logical operator (in preprocessor block)"
      ELSE IF HasTernaryText(lex)
              \/ (HasQuestionText(lex) /\ CSharpHasMatchingColonInSiblings(t, i))
           THEN "ternary operator (in preprocessor block)"
      ELSE IF HasPair(lex, "try", "{") THEN "try statement (in preprocessor block)"
      ELSE IF HasPair(lex, "catch", "(") THEN "catch clause (in preprocessor block)"
      ELSE "complexity pattern (in preprocessor block)"

CSharpGetComplexityReasonFromMalformedDeclaration(t, i) ==
  IF ~CSharpIsInPreprocessorBlock(t, i) THEN "complexity in declaration"
  ELSE LET lex == Lexemes(t, i)
       IN  IF HasTernaryDeclarationText(lex)
           THEN "ternary operator (in preprocessor block)"
           ELSE IF CountLogicalOps(lex) > 0
                THEN "logical operator (in preprocessor block)"
                ELSE "complexity pattern in declaration (preprocessor block)"

CSharpGetComplexityReason(t, i) ==
  LET ty == t[i].type
  IN  CASE ty = "if_statement" -> "if statement"
        [] ty = "while_statement" -> "while loop"
        [] ty = "for_statement" -> "for loop"
        [] ty = "foreach_statement" -> "foreach loop"
        [] ty = "switch_statement" -> "switch statement"
        [] ty = "switch_expression" -> "switch expression"
        [] ty = "try_statement" -> "try statement"
        [] ty = "catch_clause" -> "catch clause"
        [] ty = "binary_expression" ->
             "binary " \o TemplateString(CSharpGetBinaryOperator(t, i)) \o " operator"
        [] ty = "conditional_expression" -> "ternary operator"
        [] ty = "lambda_expression" -> "lambda expression (nested)"
        [] ty = "anonymous_method_expression" -> "anonymous method (nested)"
        [] ty = "continue_statement" -> "continue statement (nested)"
        [] ty = "break_statement" -> "break statement (nested)"
        [] ty = "goto_statement" -> "goto statement"
        [] ty = "ERROR" -> CSharpGetComplexityReasonFromErrorNode(t, i)
        [] ty \in {"field_declaration", "variable_declaration"} ->
             CSharpGetComplexityReasonFromMalformedDeclaration(t, i)
        [] OTHER -> "unknown complexity source"

CSharpIncreasesNesting(t, i) ==
  t[i].type \in {"if_statement", "while_statement", "for_statement",
                 "foreach_statement", "switch_statement", "try_statement",
                 "catch_clause", "lambda_expression",
                 "anonymous_method_expression"}



\* CSharpRecord with the total advanced by the base increment only
CSharpRecordUnsummed(st, t, i) ==
  LET baseIncrement == CSharpGetComplexityIncrement(t, i, st.nesting)
      increment     == baseIncrement + st.nesting
  IN  IF baseIncrement > 0
      THEN [st EXCEPT !.complexity = @ + baseIncrement,
                      !.details = Append(@, Detail(increment,
                                                   CSharpGetComplexityReason(t, i),
                                                   StartRow(t, i), StartCol(t, i),
                                                   st.nesting))]
      ELSE st

\* CSharpRecord without the nesting addend
CSharpRecordNoNesting(st, t, i) ==
  LET baseIncrement == CSharpGetComplexityIncrement(t, i, st.nesting)
  IN  IF baseIncrement > 0
      THEN [st EXCEPT !.complexity = @ + baseIncrement,
                      !.details = Append(@, Detail(baseIncrement,
                                                   CSharpGetComplexityReason(t, i),
                                                   StartRow(t, i), StartCol(t, i),
                                                   st.nesting))]
      ELSE st

\* visit, lines 341-355: score the node and record its detail
CSharpRecord(st, t, i) ==
  LET baseIncrement == CSharpGetComplexityIncrement(t, i, st.nesting)
      increment     == baseIncrement + st.nesting
  IN  IF baseIncrement > 0
      THEN [st EXCEPT !.complexity = @ + increment,
                      !.details = Append(@, Detail(increment,
                                                   CSharpGetComplexityReason(t, i),
                                                   StartRow(t, i), StartCol(t, i),
                                                   st.nesting))]
      ELSE st

\* CSharpVisitedChildren without the test for nested function declarations
CSharpVisitedChildrenAll(t, i) == Children(t, i)

\* visit, lines 361-365 and 370-374: the children that are walked into
CSharpVisitedChildren(t, i) ==
  SelectSeq(Children(t, i), LAMBDA j : ~CSharpIsFunctionDeclaration(t, j))

RECURSIVE CSharpVisit(_, _, _)
RECURSIVE CSharpVisitEach(_, _, _)

\* the for loops of visit over the children, from state st
CSharpVisitEach(st, t, kids) ==
  IF kids = << >> THEN st
  ELSE CSharpVisitEach(CSharpVisit(st, t, Head(kids)), t, Tail(kids))

CSharpVisit(st, t, i) ==
  LET st1 == CSharpRecord(st, t, i)
  IN  IF CSharpIncreasesNesting(t, i)
      THEN LET st2 == CSharpVisitEach([st1 EXCEPT !.nesting = @ + 1], t,
                                      CSharpVisitedChildren(t, i))
           IN  [st2 EXCEPT !.nesting = @ - 1]
      ELSE CSharpVisitEach(st1, t, CSharpVisitedChildren(t, i))

FunctionMetrics(name, st, t, i) ==
  [name |-> name, complexity |-> st.complexity, details |-> st.details,
   startLine |-> StartRow(t, i), endLine |-> EndRow(t, i),
   startColumn |-> StartCol(t, i), endColumn |-> EndCol(t, i)]

\* the two returns of analyzeFunction: null, or the metrics of the function
NotAnalyzed(st) == [state |-> st, found |-> FALSE]
Analyzed(name, st, t, i) ==
  [state |-> st, found |-> TRUE, metrics |-> FunctionMetrics(name, st, t, i)]

\* Collect that puts the new entry in front of the earlier ones
CollectInFront(acc, r) ==
  [state |-> r.state,
   functions |-> IF r.found THEN << r.metrics >> \o acc.functions ELSE acc.functions]

\* if (metrics) functions.push(metrics)
Collect(acc, r) ==
  [state |-> r.state,
   functions |-> IF r.found THEN Append(acc.functions, r.metrics) ELSE acc.functions]

\* analyzeFunction on the analyzer whose fields are st: the fields afterwards
\* and the result (found = FALSE for null)
CSharpAnalyzeFunction(st, t, i) ==
  IF CSharpGetFunctionBody(t, i) = 0
  THEN NotAnalyzed(ResetState(st))
  ELSE Analyzed(CSharpGetFunctionName(t, i),
                CSharpVisit(ResetState(st), t, CSharpGetFunctionBody(t, i)), t, i)

\* the visit closure of analyzeFunctions walks every node of the tree in
\* pre-order (children included, also those of a function declaration); the
\* tree is kept in pre-order, so the walk is the left-to-right pass over it
RECURSIVE CSharpLocate(_, _, _)
CSharpLocate(acc, t, i) ==
  IF i > Len(t) THEN acc
  ELSE IF ~CSharpIsFunctionDeclaration(t, i) THEN CSharpLocate(acc, t, i + 1)
  ELSE CSharpLocate(Collect(acc, CSharpAnalyzeFunction(acc.state, t, i)), t, i + 1)

CSharpAnalyzeFunctions(st, t) ==
  CSharpLocate([state |-> st, functions |-> << >>], t, 1).functions

\* static analyzeFile: a new analyzer for every call
CSharpAnalyzeFile(t) == CSharpAnalyzeFunctions(FreshState, t)



(***************************************************************************)
(* Go analyzer (GoMetricsAnalyzer).                                        *)
(***************************************************************************)
GoIsFunctionDeclaration(t, i) ==
  t[i].type \in {"function_declaration", "method_declaration"}

\* the type node of the first parameter_declaration that has one, 0 for null
\* GoFindTypeInParameterList that looks past the pointer sigil
GoFindTypeInParameterListBare(t, p) ==
  LET decls == SelectSeq(Children(t, p), LAMBDA j : t[j].type = "parameter_declaration")
      inner == IF decls = << >> THEN 0
               ELSE FindChild(t, Head(decls), {"type_identifier", "pointer_type",
                                               "qualified_type"})
  IN  IF inner # 0 /\ t[inner].type = "pointer_type"
      THEN FindChild(t, inner, {"type_identifier", "qualified_type"})
      ELSE inner

GoFindTypeInParameterList(t, p) ==
  LET decls == SelectSeq(Children(t, p),
                 LAMBDA j : /\ t[j].type = "parameter_declaration"
                            /\ FindChild(t, j, {"type_identifier", "pointer_type",
                                                "qualified_type"}) # 0)
  IN  IF decls = << >> THEN 0
      ELSE FindChild(t, Head(decls), {"type_identifier", "pointer_type", "qualified_type"})

GoGetFunctionName(t, i) ==
  LET receiver     == FindChild(t, i, {"parameter_list"})
      fieldName    == FindChild(t, i, {"field_identifier"})
      typeNode     == IF receiver = 0 THEN 0 ELSE GoFindTypeInParameterList(t, receiver)
      receiverType == IF typeNode = 0 THEN "" ELSE NodeText(t, typeNode)
      nameNode     == FindChild(t, i, {"identifier"})
  IN  IF t[i].type = "method_declaration" /\ fieldName # 0
      THEN (IF receiverType # "" THEN receiverType \o "." \o NodeText(t, fieldName)
            ELSE NodeText(t, fieldName))
      ELSE IF nameNode # 0 THEN NodeText(t, nameNode) ELSE "<anonymous>"

GoGetFunctionBody(t, i) == FindChild(t, i, {"block"})

\* the first child whose text is && or ||, "" for null
GoGetBinaryOperator(t, i) ==
  LET ops == SelectSeq(Children(t, i), LAMBDA j : NodeText(t, j) \in {"&&", "||"})
  IN  IF ops = << >> THEN "" ELSE NodeText(t, Head(ops))

GoIsRecoverCall(t, i) ==
  LET funcNode == FindChild(t, i, {"identifier"})
  IN  funcNode # 0 /\ NodeText(t, funcNode) = "recover"

\* GoHasLabel that finds no label
GoHasLabelNever(t, i) == FALSE

GoHasLabel(t, i) == FindChild(t, i, {"label_name"}) # 0

GoControlKinds ==
  {"if_statement", "for_statement", "expression_switch_statement",
   "type_switch_statement", "select_statement"}

GoGetComplexityIncrement(t, i, nesting) ==
  LET ty == t[i].type
  IN  IF ty \in GoControlKinds THEN 1
      ELSE IF ty = "binary_expression"
           THEN (IF GoGetBinaryOperator(t, i) \in {"&&", "||"} THEN 1 ELSE 0)
      ELSE IF ty = "func_literal" THEN (IF nesting > 0 THEN 1 ELSE 0)
      ELSE IF ty \in {"break_statement", "continue_statement"}
           THEN (IF GoHasLabel(t, i) THEN 1 ELSE IF nesting > 0 THEN 1 ELSE 0)
      ELSE IF ty = "goto_statement" THEN 1
      ELSE IF ty = "call_expression" THEN (IF GoIsRecoverCall(t, i) THEN 1 ELSE 0)
      ELSE 0

GoGetComplexityReason(t, i) ==
  LET ty == t[i].type
  IN  CASE ty = "if_statement" -> "if statement"
        [] ty = "for_statement" -> "for loop"
        [] ty = "expression_switch_statement" -> "switch statement"
        [] ty = "type_switch_statement" -> "type switch statement"
        [] ty = "select_statement" -> "select statement"
        [] ty = "binary_expression" ->
             "binary " \o TemplateString(GoGetBinaryOperator(t, i)) \o " operator"
        [] ty = "func_literal" -> "function literal (nested)"
        [] ty = "break_statement" ->
             (IF GoHasLabel(t, i) THEN "labeled break statement"
              ELSE "break statement (nested)")
        [] ty = "continue_statement" ->
             (IF GoHasLabel(t, i) THEN "labeled continue statement"
              ELSE "continue statement (nested)")
        [] ty = "goto_statement" -> "goto statement"
        [] ty = "call_expression" ->
             (IF GoIsRecoverCall(t, i) THEN "recover call" ELSE "call expression")
        [] OTHER -> "unknown complexity source"

GoIncreasesNesting(t, i) ==
  t[i].type \in GoControlKinds \cup {"func_literal"}

\* GoRecord with the nesting addend of the C# analyzer
GoRecordWithNesting(st, t, i) ==
  LET increment == GoGetComplexityIncrement(t, i, st.nesting)
  IN  IF increment > 0
      THEN [st EXCEPT !.complexity = @ + increment + st.nesting,
                      !.details = Append(@, Detail(increment + st.nesting,
                                                   GoGetComplexityReason(t, i),
                                                   StartRow(t, i), StartCol(t, i),
                                                   st.nesting))]
      ELSE st

\* visit, lines 1111-1123: score the node and record its detail
GoRecord(st, t, i) ==
  LET increment == GoGetComplexityIncrement(t, i, st.nesting)
  IN  IF increment > 0
      THEN [st EXCEPT !.complexity = @ + increment,
                      !.details = Append(@, Detail(increment,
                                                   GoGetComplexityReason(t, i),
                                                   StartRow(t, i), StartCol(t, i),
                                                   st.nesting))]
      ELSE st

\* visit, lines 1129-1133 and 1138-1142: the children that are walked into
GoVisitedChildren(t, i) ==
  SelectSeq(Children(t, i), LAMBDA j : ~GoIsFunctionDeclaration(t, j))

RECURSIVE GoVisit(_, _, _)
RECURSIVE GoVisitEach(_, _, _)

GoVisitEach(st, t, kids) ==
  IF kids = << >> THEN st
  ELSE GoVisitEach(GoVisit(st, t, Head(kids)), t, Tail(kids))

GoVisit(st, t, i) ==
  LET st1 == GoRecord(st, t, i)
  IN  IF GoIncreasesNesting(t, i)
      THEN LET st2 == GoVisitEach([st1 EXCEPT !.nesting = @ + 1], t,
                                  GoVisitedChildren(t, i))
           IN  [st2 EXCEPT !.nesting = @ - 1]
      ELSE GoVisitEach(st1, t, GoVisitedChildren(t, i))

\* analyzeFunction on the analyzer whose fields are st: the fields afterwards
\* and the result (found = FALSE for null)
GoAnalyzeFunction(st, t, i) ==
  IF GoGetFunctionBody(t, i) = 0
  THEN NotAnalyzed(ResetState(st))
  ELSE Analyzed(GoGetFunctionName(t, i),
                GoVisit(ResetState(st), t, GoGetFunctionBody(t, i)), t, i)

\* the visit closure of analyzeFunctions walks every node of the tree in
\* pre-order (children included, also those of a function declaration); the
\* tree is kept in pre-order, so the walk is the left-to-right pass over it
RECURSIVE GoLocate(_, _, _)
GoLocate(acc, t, i) ==
  IF i > Len(t) THEN acc
  ELSE IF ~GoIsFunctionDeclaration(t, i) THEN GoLocate(acc, t, i + 1)
  ELSE GoLocate(Collect(acc, GoAnalyzeFunction(acc.state, t, i)), t, i + 1)

GoAnalyzeFunctions(st, t) ==
  GoLocate([state |-> st, functions |-> << >>], t, 1).functions

\* static analyzeFile: a new analyzer for every call
GoAnalyzeFile(t) == GoAnalyzeFunctions(FreshState, t)



(***************************************************************************)
(* Normalizer and dispatcher (MetricsAnalyzerFactory).                     *)
(***************************************************************************)
\* NormalizeDetail that leaves the analyzer's 0-based positions
NormalizeDetailUnshifted(d) ==
  [increment |-> d.increment, reason |-> d.reason, line |-> d.line,
   column |-> d.column, nesting |-> d.nesting]

\* details.map of createCSharpAnalyzer / createGoAnalyzer
NormalizeDetail(d) ==
  [increment |-> d.increment, reason |-> d.reason, line |-> d.line + 1,
   column |-> d.column + 1, nesting |-> d.nesting]

\* NormalizeFunction that shifts the function's own lines as well
NormalizeFunctionShifted(f) ==
  [name |-> f.name, complexity |-> f.complexity,
   details |-> [k \in 1..Len(f.details) |-> NormalizeDetail(f.details[k])],
   startLine |-> f.startLine + 1, endLine |-> f.endLine + 1,
   startColumn |-> f.startColumn, endColumn |-> f.endColumn]

\* functions.map of createCSharpAnalyzer / createGoAnalyzer
NormalizeFunction(f) ==
  [name |-> f.name, complexity |-> f.complexity,
   details |-> [k \in 1..Len(f.details) |-> NormalizeDetail(f.details[k])],
   startLine |-> f.startLine, endLine |-> f.endLine,
   startColumn |-> f.startColumn, endColumn |-> f.endColumn]

Normalize(functions) == [k \in 1..Len(functions) |-> NormalizeFunction(functions[k])]

\* The closures kept in languageAnalyzers.  `before` is the result of the
\* call made before this one: the closures capture nothing, so it is not read.
CreateCSharpAnalyzer(before, t) == Normalize(CSharpAnalyzeFile(t))
\* createGoAnalyzer with a result array that outlives the call
CreateGoAnalyzerShared(before, t) ==
  Normalize(GoAnalyzeFile(t)) \o before.functions

CreateGoAnalyzer(before, t) == Normalize(GoAnalyzeFile(t))

\* JavaScript values that are passed as languageId
JsString(s) == [tag |-> "string", val |-> s]
JsNull == [tag |-> "null", val |-> ""]
JsUndefined == [tag |-> "undefined", val |-> ""]

\* the property key of languageAnalyzers[languageId]
ToPropertyKey(v) == IF v.tag = "string" THEN v.val ELSE v.tag

\* Object.keys(languageAnalyzers)
GetSupportedLanguages == << "csharp", "go" >>

SupportedLanguages == { GetSupportedLanguages[k] : k \in 1..Len(GetSupportedLanguages) }

\* languageAnalyzers is an object literal, so a lookup that misses its own
\* keys continues in Object.prototype: a property found there is a function
\* that returns no array when called with the source text, or (__proto__)
\* an object that cannot be called.
InheritedFunctions == {"constructor", "toString"}
InheritedObjects == {"__proto__"}

Outcome(kind, functions) == [kind |-> kind, functions |-> functions]
NoOutcome == Outcome("none", << >>)

\* the value the language analyzer returned, before normalization
RawAnalysis(t, id) ==
  LET key == ToPropertyKey(id)
  IN  IF key = "csharp" THEN CSharpAnalyzeFile(t)
      ELSE IF key = "go" THEN GoAnalyzeFile(t)
      ELSE << >>

\* languageAnalyzers[languageId]
LanguageAnalyzersGet(key) ==
  IF key \in SupportedLanguages THEN key
  ELSE IF key \in InheritedFunctions THEN "inherited function"
  ELSE IF key \in InheritedObjects THEN "inherited object"
  ELSE "undefined"

\* MetricsAnalyzerFactory.analyzeFile(sourceText, languageId)
AnalyzeFile(before, t, id) ==
  LET analyzer == LanguageAnalyzersGet(ToPropertyKey(id))
  IN  IF analyzer # "undefined"
      THEN CASE analyzer = "csharp" -> Outcome("array", CreateCSharpAnalyzer(before, t))
             [] analyzer = "go" -> Outcome("array", CreateGoAnalyzer(before, t))
             [] analyzer = "inherited function" -> Outcome("nonarray", << >>)
             [] analyzer = "inherited object" -> Outcome("throw", << >>)
      ELSE Outcome("array", << >>)



(***************************************************************************)
(* Documents: the sources of the repository's tests, as syntax trees.      *)
(***************************************************************************)
\* class Test { void F() { } }
CsSkeleton ==
  << Node("compilation_unit", "", 0, 0, 0),
            Node("class_declaration", "", 1, 0, 0),
            Node("identifier", "Test", 2, 0, 6),
            Node("declaration_list", "", 2, 0, 11),
            Node("method_declaration", "", 4, 1, 2),
            Node("identifier", "F", 5, 1, 7),
            Node("block", "", 5, 1, 11) >>

\* abstract class Test { public abstract void AbstractMethod(); }
CsAbstract ==
  << Node("compilation_unit", "", 0, 0, 0),
            Node("class_declaration", "", 1, 0, 0),
            Node("identifier", "Test", 2, 0, 15),
            Node("declaration_list", "", 2, 0, 20),
            Node("method_declaration", "", 4, 1, 2),
            Node("identifier", "AbstractMethod", 5, 1, 23),
            Node(";", ";", 5, 1, 39) >>

\* Process: if { for { if { continue; } } }
CsProcess ==
  << Node("compilation_unit", "", 0, 0, 0),
            Node("class_declaration", "", 1, 1, 0),
            Node("identifier", "Test", 2, 1, 13),
            Node("declaration_list", "", 2, 1, 18),
            Node("method_declaration", "", 4, 2, 2),
            Node("identifier", "Process", 5, 2, 16),
            Node("block", "", 5, 2, 35),
            Node("if_statement", "", 7, 3, 4),
            Node("block", "", 8, 3, 19),
            Node("for_statement", "", 9, 4, 6),
            Node("block", "", 10, 4, 38),
            Node("if_statement", "", 11, 5, 8),
            Node("block", "", 12, 5, 24),
            Node("continue_statement", "", 13, 6, 10) >>

\* MultipleCatch: try { } catch (..) { } catch (..) { }
CsMultipleCatch ==
  << Node("compilation_unit", "", 0, 0, 0),
            Node("class_declaration", "", 1, 1, 0),
            Node("identifier", "Test", 2, 1, 13),
            Node("declaration_list", "", 2, 1, 18),
            Node("method_declaration", "", 4, 2, 2),
            Node("identifier", "MultipleCatch", 5, 2, 14),
            Node("block", "", 5, 2, 30),
            Node("try_statement", "", 7, 3, 4),
            Node("block", "", 8, 3, 8),
            Node("catch_clause", "", 8, 6, 4),
            Node("block", "", 10, 6, 35),
            Node("catch_clause", "", 8, 9, 4),
            Node("block", "", 12, 9, 43) >>

\* Method: if (a && b) { return; } if (b || c) { return; }
CsLogical ==
  << Node("compilation_unit", "", 0, 0, 0),
            Node("class_declaration", "", 1, 1, 0),
            Node("identifier", "Test", 2, 1, 13),
            Node("declaration_list", "", 2, 1, 18),
            Node("method_declaration", "", 4, 2, 2),
            Node("identifier", "Method", 5, 2, 14),
            Node("block", "", 5, 2, 45),
            Node("if_statement", "", 7, 3, 4),
            Node("binary_expression", "", 8, 3, 8),
            Node("identifier", "a", 9, 3, 8),
            Node("&&", "&&", 9, 3, 10),
            Node("identifier", "b", 9, 3, 13),
            Node("block", "", 8, 3, 16),
            Node("if_statement", "", 7, 6, 4),
            Node("binary_expression", "", 14, 6, 8),
            Node("identifier", "b", 15, 6, 8),
            Node("||", "||", 15, 6, 10),
            Node("identifier", "c", 15, 6, 13),
            Node("block", "", 14, 6, 16) >>

\* OuterMethod: if (..) { .. }  void LocalFunction() { for (..) { } }
CsLocalFunction ==
  << Node("compilation_unit", "", 0, 0, 0),
            Node("class_declaration", "", 1, 1, 0),
            Node("identifier", "Test", 2, 1, 13),
            Node("declaration_list", "", 2, 1, 18),
            Node("method_declaration", "", 4, 2, 2),
            Node("identifier", "OuterMethod", 5, 2, 14),
            Node("block", "", 5, 2, 28),
            Node("if_statement", "", 7, 3, 4),
            Node("block", "", 8, 3, 23),
            Node("local_function_statement", "", 7, 7, 4),
            Node("identifier", "LocalFunction", 10, 7, 9),
            Node("block", "", 10, 7, 25),
            Node("for_statement", "", 12, 8, 6),
            Node("block", "", 13, 8, 35) >>

\* func F() { }
GoSkeleton ==
  << Node("source_file", "", 0, 0, 0),
            Node("function_declaration", "", 1, 0, 0),
            Node("identifier", "F", 2, 0, 5),
            Node("block", "", 2, 0, 9) >>

\* func F() { if a { } }   on one line
GoOneLine ==
  << Node("source_file", "", 0, 0, 0),
            Node("function_declaration", "", 1, 0, 0),
            Node("identifier", "F", 2, 0, 5),
            Node("block", "", 2, 0, 9),
            Node("if_statement", "", 4, 0, 11),
            Node("identifier", "a", 5, 0, 14),
            Node("block", "", 5, 0, 16),
            Node("return_statement", "", 7, 0, 18),
            Node("expression_list", "", 8, 0, 25),
            Node("identifier", "a", 9, 0, 25) >>

\* Process: if { for { if { continue } } }
GoProcess ==
  << Node("source_file", "", 0, 1, 0),
            Node("function_declaration", "", 1, 3, 0),
            Node("identifier", "Process", 2, 3, 5),
            Node("block", "", 2, 3, 31),
            Node("if_statement", "", 4, 4, 4),
            Node("block", "", 5, 4, 17),
            Node("for_statement", "", 6, 5, 8),
            Node("block", "", 7, 5, 36),
            Node("if_statement", "", 8, 6, 12),
            Node("block", "", 9, 6, 24),
            Node("continue_statement", "", 10, 7, 16) >>

\* Add; Divide: if; ProcessNumbers: if a == nil || b { } for range { if { continue } }
GoProcessNumbers ==
  << Node("source_file", "", 0, 1, 0),
            Node("function_declaration", "", 1, 3, 0),
            Node("identifier", "Add", 2, 3, 5),
            Node("block", "", 2, 3, 23),
            Node("function_declaration", "", 1, 7, 0),
            Node("identifier", "Divide", 5, 7, 5),
            Node("block", "", 5, 7, 26),
            Node("if_statement", "", 7, 8, 4),
            Node("block", "", 8, 8, 14),
            Node("function_declaration", "", 1, 14, 0),
            Node("identifier", "ProcessNumbers", 10, 14, 5),
            Node("block", "", 10, 14, 42),
            Node("if_statement", "", 12, 15, 4),
            Node("binary_expression", "", 13, 15, 7),
            Node("||", "||", 14, 15, 22),
            Node("block", "", 13, 15, 43),
            Node("for_statement", "", 12, 19, 4),
            Node("block", "", 17, 19, 35),
            Node("if_statement", "", 18, 20, 8),
            Node("block", "", 19, 20, 22),
            Node("continue_statement", "", 20, 21, 12) >>

\* func (c Calculator) Add ..; func (c *Calculator) MultiplyWithCheck: if a < 0 || b < 0 { }
GoMethods ==
  << Node("source_file", "", 0, 1, 0),
            Node("method_declaration", "", 1, 5, 0),
            Node("parameter_list", "", 2, 5, 5),
            Node("parameter_declaration", "", 3, 5, 6),
            Node("identifier", "c", 4, 5, 6),
            Node("type_identifier", "Calculator", 4, 5, 8),
            Node("field_identifier", "Add", 2, 5, 20),
            Node("block", "", 2, 5, 38),
            Node("method_declaration", "", 1, 9, 0),
            Node("parameter_list", "", 9, 9, 5),
            Node("parameter_declaration", "", 10, 9, 6),
            Node("identifier", "c", 11, 9, 6),
            Node("pointer_type", "", 11, 9, 8),
            Node("*", "*", 13, 9, 8),
            Node("type_identifier", "Calculator", 13, 9, 9),
            Node("field_identifier", "MultiplyWithCheck", 9, 9, 21),
            Node("block", "", 9, 9, 53),
            Node("if_statement", "", 17, 10, 4),
            Node("binary_expression", "", 18, 10, 7),
            Node("||", "||", 19, 10, 13),
            Node("block", "", 18, 10, 22) >>

\* ComplexMethod: for range { if { for { if { } } } }
GoNested ==
  << Node("source_file", "", 0, 1, 0),
            Node("function_declaration", "", 1, 3, 0),
            Node("identifier", "ComplexMethod", 2, 3, 5),
            Node("block", "", 2, 3, 36),
            Node("for_statement", "", 4, 5, 4),
            Node("block", "", 5, 5, 31),
            Node("if_statement", "", 6, 6, 8),
            Node("block", "", 7, 6, 20),
            Node("for_statement", "", 8, 7, 12),
            Node("block", "", 9, 7, 39),
            Node("if_statement", "", 10, 8, 16),
            Node("block", "", 11, 8, 28) >>

\* the empty source
CsEmpty ==
  << Node("compilation_unit", "", 0, 0, 0) >>

\* // a comment   /* a block comment */
CsComments ==
  << Node("compilation_unit", "", 0, 0, 0),
            Node("comment", "", 1, 1, 0),
            Node("comment", "", 1, 2, 0) >>

\* Method: if (true) { while (true) { if (false) { break; } } }
CsNesting ==
  << Node("compilation_unit", "", 0, 1, 16),
            Node("class_declaration", "", 1, 1, 16),
            Node("identifier", "Test", 2, 1, 29),
            Node("declaration_list", "", 2, 1, 34),
            Node("method_declaration", "", 4, 2, 20),
            Node("identifier", "Method", 5, 2, 32),
            Node("block", "", 5, 2, 41),
            Node("if_statement", "", 7, 3, 24),
            Node("block", "", 8, 3, 34),
            Node("while_statement", "", 9, 4, 28),
            Node("block", "", 10, 4, 41),
            Node("if_statement", "", 11, 5, 32),
            Node("block", "", 12, 5, 43),
            Node("break_statement", "", 13, 6, 36) >>

\* int M(int x) { return x switch { 1 => a ? b : c, _ => d }; }
CsSwitchExpression ==
  << Node("compilation_unit", "", 0, 0, 0),
            Node("class_declaration", "", 1, 0, 0),
            Node("identifier", "Test", 2, 0, 6),
            Node("declaration_list", "", 2, 0, 11),
            Node("method_declaration", "", 4, 1, 2),
            Node("identifier", "M", 5, 1, 6),
            Node("block", "", 5, 1, 15),
            Node("return_statement", "", 7, 1, 17),
            Node("switch_expression", "", 8, 1, 24),
            Node("identifier", "x", 9, 1, 24),
            Node("switch_expression_arm", "", 9, 1, 35),
            Node("conditional_expression", "", 11, 1, 40),
            Node("switch_expression_arm", "", 9, 1, 51),
            Node("identifier", "d", 13, 1, 56) >>

\* void M() { bool b = x && y; if (z }   no preprocessor directive anywhere
CsMalformed ==
  << Node("compilation_unit", "", 0, 0, 0),
            Node("class_declaration", "", 1, 0, 0),
            Node("identifier", "Test", 2, 0, 6),
            Node("declaration_list", "", 2, 0, 11),
            Node("method_declaration", "", 4, 1, 2),
            Node("identifier", "M", 5, 1, 7),
            Node("block", "", 5, 1, 11),
            Node("local_declaration_statement", "", 7, 2, 4),
            Node("variable_declaration", "", 8, 2, 4),
            Node("identifier", "b", 9, 2, 9),
            Node("=", "=", 9, 2, 11),
            Node("binary_expression", "", 9, 2, 13),
            Node("identifier", "x", 12, 2, 13),
            Node("&&", "&&", 12, 2, 15),
            Node("identifier", "y", 12, 2, 18),
            Node("ERROR", "", 7, 3, 4),
            Node("if", "if", 16, 3, 4),
            Node("(", "(", 16, 3, 7),
            Node("identifier", "z", 16, 3, 8) >>

\* void M() { Action a = () => { }; if (x) { Run(delegate { break; }); } }
CsLambdas ==
  << Node("compilation_unit", "", 0, 0, 0),
            Node("class_declaration", "", 1, 0, 0),
            Node("identifier", "Test", 2, 0, 6),
            Node("declaration_list", "", 2, 0, 11),
            Node("method_declaration", "", 4, 1, 2),
            Node("identifier", "M", 5, 1, 7),
            Node("block", "", 5, 1, 11),
            Node("local_declaration_statement", "", 7, 2, 4),
            Node("lambda_expression", "", 8, 2, 15),
            Node("block", "", 9, 2, 21),
            Node("if_statement", "", 7, 3, 4),
            Node("identifier", "x", 11, 3, 8),
            Node("block", "", 11, 3, 11),
            Node("anonymous_method_expression", "", 13, 4, 10),
            Node("block", "", 14, 4, 19),
            Node("break_statement", "", 15, 4, 21) >>

\* func F() { f := func() { }; for { go func() { continue }() } }
GoFuncLiterals ==
  << Node("source_file", "", 0, 0, 0),
            Node("function_declaration", "", 1, 0, 0),
            Node("identifier", "F", 2, 0, 5),
            Node("block", "", 2, 0, 9),
            Node("short_var_declaration", "", 4, 1, 4),
            Node("func_literal", "", 5, 1, 9),
            Node("block", "", 6, 1, 16),
            Node("for_statement", "", 4, 2, 4),
            Node("block", "", 8, 2, 8),
            Node("go_statement", "", 9, 3, 8),
            Node("func_literal", "", 10, 3, 11),
            Node("block", "", 11, 3, 18),
            Node("continue_statement", "", 12, 3, 20) >>

\* LabeledBreak: outer: for { for { if j == 5 { break outer } } }
GoLabeledBreak ==
  << Node("source_file", "", 0, 1, 0),
            Node("function_declaration", "", 1, 3, 0),
            Node("identifier", "LabeledBreak", 2, 3, 5),
            Node("block", "", 2, 3, 20),
            Node("labeled_statement", "", 4, 4, 0),
            Node("label_name", "outer", 5, 4, 0),
            Node("for_statement", "", 5, 5, 4),
            Node("block", "", 7, 5, 30),
            Node("for_statement", "", 8, 6, 8),
            Node("block", "", 9, 6, 34),
            Node("if_statement", "", 10, 7, 12),
            Node("block", "", 11, 7, 22),
            Node("break_statement", "", 12, 8, 16),
            Node("label_name", "outer", 13, 8, 22) >>

\* GotoTest: goto label; label: return
GoGoto ==
  << Node("source_file", "", 0, 1, 0),
            Node("function_declaration", "", 1, 3, 0),
            Node("identifier", "GotoTest", 2, 3, 5),
            Node("block", "", 2, 3, 16),
            Node("goto_statement", "", 4, 4, 4),
            Node("label_name", "label", 5, 4, 9),
            Node("labeled_statement", "", 4, 5, 0),
            Node("label_name", "label", 7, 5, 0),
            Node("return_statement", "", 7, 6, 4) >>

\* func (c *Counter) Increment() { if c.value < 100 { c.value++ } }
GoCounter ==
  << Node("source_file", "", 0, 1, 0),
            Node("method_declaration", "", 1, 7, 0),
            Node("parameter_list", "", 2, 7, 5),
            Node("parameter_declaration", "", 3, 7, 6),
            Node("identifier", "c", 4, 7, 6),
            Node("pointer_type", "", 4, 7, 8),
            Node("*", "*", 6, 7, 8),
            Node("type_identifier", "Counter", 6, 7, 9),
            Node("field_identifier", "Increment", 2, 7, 18),
            Node("parameter_list", "", 2, 7, 27),
            Node("block", "", 2, 7, 30),
            Node("if_statement", "", 11, 8, 4),
            Node("binary_expression", "", 12, 8, 7),
            Node("<", "<", 13, 8, 15),
            Node("block", "", 12, 8, 21) >>

\* public class Test { public Test(int value) { if (value < 0) { throw } } ~Test() { if (disposed) { return; } } }
CsConstructor ==
  << Node("compilation_unit", "", 0, 1, 16),
            Node("class_declaration", "", 1, 1, 16),
            Node("identifier", "Test", 2, 1, 29),
            Node("declaration_list", "", 2, 1, 34),
            Node("constructor_declaration", "", 4, 2, 20),
            Node("identifier", "Test", 5, 2, 27),
            Node("block", "", 5, 2, 43),
            Node("if_statement", "", 7, 3, 24),
            Node("block", "", 8, 3, 39),
            Node("destructor_declaration", "", 4, 7, 20),
            Node("identifier", "Test", 10, 7, 21),
            Node("block", "", 10, 7, 28),
            Node("if_statement", "", 12, 8, 24),
            Node("block", "", 13, 8, 38) >>

\* public struct Point { public Point(int x) { if (x < 0) { } } }
CsStructConstructor ==
  << Node("compilation_unit", "", 0, 0, 0),
            Node("struct_declaration", "", 1, 0, 0),
            Node("identifier", "Point", 2, 0, 14),
            Node("declaration_list", "", 2, 0, 20),
            Node("constructor_declaration", "", 4, 1, 2),
            Node("identifier", "Point", 5, 1, 9),
            Node("block", "", 5, 1, 22),
            Node("if_statement", "", 7, 2, 4),
            Node("block", "", 8, 2, 15) >>

\* abstract void A(); void B();  #if DEBUG  if (x) { }  #endif
CsPreprocessorSplit ==
  << Node("compilation_unit", "", 0, 0, 0),
            Node("class_declaration", "", 1, 0, 0),
            Node("identifier", "Test", 2, 0, 15),
            Node("declaration_list", "", 2, 0, 20),
            Node("method_declaration", "", 4, 1, 2),
            Node("identifier", "A", 5, 1, 23),
            Node(";", ";", 5, 1, 26),
            Node("method_declaration", "", 4, 2, 2),
            Node("identifier", "B", 8, 2, 14),
            Node(";", ";", 8, 2, 17),
            Node("preproc_if", "", 4, 3, 0),
            Node("identifier", "DEBUG", 11, 3, 4),
            Node("if_statement", "", 11, 4, 4),
            Node("block", "", 13, 4, 11) >>

\* void M() {  #if DEBUG  bool b = x && y;  #endif  }
CsPreprocessorDeclaration ==
  << Node("compilation_unit", "", 0, 0, 0),
            Node("class_declaration", "", 1, 0, 0),
            Node("identifier", "Test", 2, 0, 6),
            Node("declaration_list", "", 2, 0, 11),
            Node("method_declaration", "", 4, 1, 2),
            Node("identifier", "M", 5, 1, 7),
            Node("block", "", 5, 1, 11),
            Node("preproc_if", "", 7, 2, 0),
            Node("identifier", "DEBUG", 8, 2, 4),
            Node("local_declaration_statement", "", 8, 3, 4),
            Node("variable_declaration", "", 10, 3, 4),
            Node("identifier", "b", 11, 3, 9),
            Node("=", "=", 11, 3, 11),
            Node("binary_expression", "", 11, 3, 13),
            Node("identifier", "x", 14, 3, 13),
            Node("&&", "&&", 14, 3, 15),
            Node("identifier", "y", 14, 3, 18) >>

Document(g, t) == [grammar |-> g, tree |-> t]

Documents ==
  << Document("csharp", CsSkeleton), Document("csharp", CsAbstract),
     Document("csharp", CsProcess), Document("csharp", CsMultipleCatch),
     Document("csharp", CsLogical), Document("csharp", CsLocalFunction),
     Document("go", GoSkeleton), Document("go", GoOneLine),
     Document("go", GoProcess), Document("go", GoProcessNumbers),
     Document("go", GoMethods), Document("go", GoNested),
     Document("csharp", CsEmpty),
     Document("csharp", CsComments),
     Document("csharp", CsNesting),
     Document("csharp", CsSwitchExpression),
     Document("csharp", CsMalformed),
     Document("csharp", CsLambdas),
     Document("go", GoFuncLiterals),
     Document("go", GoLabeledBreak),
     Document("go", GoGoto),
     Document("go", GoCounter),
     Document("csharp", CsConstructor),
     Document("csharp", CsStructConstructor),
     Document("csharp", CsPreprocessorSplit),
     Document("csharp", CsPreprocessorDeclaration) >>



(***************************************************************************)
(* Edits: a node is appended to the document as the last child of a node   *)
(* on the rightmost path of the tree.                                      *)
(***************************************************************************)
Template(type, text, ownLine) == [type |-> type, text |-> text, ownLine |-> ownLine]

CsTemplates ==
  { Template("if_statement", "", TRUE),
    Template("binary_expression", "", FALSE),
    Template("&&", "&&", FALSE),
    Template("break_statement", "", TRUE),
    Template("lambda_expression", "", FALSE),
    Template("local_function_statement", "", TRUE),
    Template("identifier", "G", FALSE),
    Template("block", "", FALSE),
    Template("preproc_if", "", TRUE) }

GoTemplates ==
  { Template("if_statement", "", TRUE),
    Template("binary_expression", "", FALSE),
    Template("||", "||", FALSE),
    Template("break_statement", "", TRUE),
    Template("label_name", "outer", FALSE),
    Template("func_literal", "", FALSE),
    Template("function_declaration", "", TRUE),
    Template("identifier", "G", FALSE),
    Template("block", "", FALSE) }

Templates(g) == IF g = "csharp" THEN CsTemplates ELSE GoTemplates

\* the nodes a new last node can hang from: the last node and its ancestors,
\* tokens excepted
RightmostPath(t) ==
  { i \in {Len(t)} \cup { Ancestors(t, Len(t))[n] : n \in 1..Len(Ancestors(t, Len(t))) } :
      t[i].text = "" }

AppendNode(t, parent, tpl) ==
  LET last == t[Len(t)]
  IN  Append(t, IF tpl.ownLine
                THEN Node(tpl.type, tpl.text, parent, last.row + 1,
                          2 * (Len(Ancestors(t, parent)) + 1))
                ELSE Node(tpl.type, tpl.text, parent, last.row, last.col + 2))

(***************************************************************************)
(* Host layer: configuration and the code lens provider.  Strings that are *)
(* matched or rewritten character by character (paths, exclude patterns,   *)
(* URI schemes) are sequences of one-character strings.                    *)
(***************************************************************************)
DEFAULT_CONFIG ==
  [enabled |-> TRUE, showCodeLens |-> TRUE, warningThreshold |-> 10,
   errorThreshold |-> 15, excludePatterns |-> << >>]

\* ConfigurationManager.getComplexityStatus with > for >=
GetComplexityStatusStrict(complexity, cfg) ==
  IF complexity > cfg.errorThreshold
  THEN [level |-> "error", text |-> "High Complexity"]
  ELSE IF complexity > cfg.warningThreshold
       THEN [level |-> "warning", text |-> "Moderate Complexity"]
       ELSE [level |-> "low", text |-> "Low Complexity"]

\* ConfigurationManager.getComplexityStatus under the settings cfg
GetComplexityStatus(complexity, cfg) ==
  IF complexity >= cfg.errorThreshold
  THEN [level |-> "error", text |-> "High Complexity"]
  ELSE IF complexity >= cfg.warningThreshold
       THEN [level |-> "warning", text |-> "Moderate Complexity"]
       ELSE [level |-> "low", text |-> "Low Complexity"]

\* Object.keys(languageAnalyzers) of the factory the provider imports
ComplexityAnalyzerFactoryGetSupportedLanguages == << "csharp" >>

\* String.prototype.startsWith
StartsWith(s, prefix) ==
  Len(s) >= Len(prefix) /\ SubSeq(s, 1, Len(prefix)) = prefix

IsSupported(d) ==
  /\ \E n \in 1..Len(ComplexityAnalyzerFactoryGetSupportedLanguages) :
       ComplexityAnalyzerFactoryGetSupportedLanguages[n] = d.languageId
  /\ ~StartsWith(d.scheme, << "g", "i", "t" >>)

\* replace(/\\/g, "/")
ReplaceBackslashes(s) == [k \in 1..Len(s) |-> IF s[k] = "\\" THEN "/" ELSE s[k]]

\* replace(/\*\*/g, "___DOUBLESTAR___"): leftmost pairs of stars, not overlapping
RECURSIVE ReplaceDoubleStars(_)
ReplaceDoubleStars(s) ==
  IF s = << >> THEN << >>
  ELSE IF Len(s) >= 2 /\ s[1] = "*" /\ s[2] = "*"
       THEN << "___DOUBLESTAR___" >> \o ReplaceDoubleStars(SubSeq(s, 3, Len(s)))
       ELSE << Head(s) >> \o ReplaceDoubleStars(Tail(s))

\* replace of every element equal to x by the characters of `by`
RECURSIVE ReplaceEach(_, _, _)
ReplaceEach(s, x, by) ==
  IF s = << >> THEN << >>
  ELSE (IF Head(s) = x THEN by ELSE << Head(s) >>) \o ReplaceEach(Tail(s), x, by)

\* the regular expression source of a pattern with path separators
PathRegexPattern(p) ==
  ReplaceEach(ReplaceEach(ReplaceDoubleStars(p), "*", << "[", "^", "/", "]", "*" >>),
              "___DOUBLESTAR___", << ".", "*" >>)

\* the regular expression source of a pattern without path separators
FilenameRegexPattern(p) == ReplaceEach(p, "*", << ".", "*" >>)

\* normalizedPath.split("/").pop() || ""
RECURSIVE Filename(_)
Filename(path) ==
  IF \A k \in 1..Len(path) : path[k] # "/" THEN path
  ELSE Filename(Tail(path))

Atom(set, quantifier) == [set |-> set, quantifier |-> quantifier]

SyntaxError == [ok |-> FALSE, atoms |-> << >>]

\* new RegExp("^" + source + "$"): the atoms of the expression between the
\* anchors, or SyntaxError.  A quantifier needs an unquantified atom in front
\* of it ("Nothing to repeat"); the only character class is [^/].
RECURSIVE Compile(_, _)
Compile(atoms, source) ==
  IF source = << >> THEN [ok |-> TRUE, atoms |-> atoms]
  ELSE IF Head(source) \in {"*", "+"}
       THEN IF atoms = << >> \/ atoms[Len(atoms)].quantifier # "1"
            THEN SyntaxError
            ELSE Compile([atoms EXCEPT ![Len(atoms)].quantifier = Head(source)],
                         Tail(source))
  ELSE IF Head(source) = "["
       THEN IF Len(source) >= 4 /\ SubSeq(source, 2, 4) = << "^", "/", "]" >>
            THEN Compile(Append(atoms, Atom("[^/]", "1")), SubSeq(source, 5, Len(source)))
            ELSE SyntaxError
  ELSE Compile(Append(atoms, Atom(Head(source), "1")), Tail(source))

NewRegExp(source) == Compile(<< >>, source)

Accepts(atom, c) ==
  IF atom.set = "." THEN TRUE
  ELSE IF atom.set = "[^/]" THEN c # "/"
  ELSE c = atom.set

\* regex.test(s) for an anchored expression
RECURSIVE Test(_, _)
Test(atoms, s) ==
  IF atoms = << >> THEN s = << >>
  ELSE IF Head(atoms).quantifier = "1"
       THEN s # << >> /\ Accepts(Head(atoms), Head(s)) /\ Test(Tail(atoms), Tail(s))
  ELSE \E n \in (IF Head(atoms).quantifier = "+" THEN 1 ELSE 0)..Len(s) :
         /\ \A k \in 1..n : Accepts(Head(atoms), s[k])
         /\ Test(Tail(atoms), SubSeq(s, n + 1, Len(s)))

\* the callback of excludePatterns.some: "true", "false" or "throws"
PatternExcludes(normalizedPath, pattern) ==
  IF \E k \in 1..Len(pattern) : ReplaceBackslashes(pattern)[k] = "/"
  THEN IF ~NewRegExp(PathRegexPattern(ReplaceBackslashes(pattern))).ok THEN "throws"
       ELSE IF Test(NewRegExp(PathRegexPattern(ReplaceBackslashes(pattern))).atoms,
                    normalizedPath)
            THEN "true" ELSE "false"
  ELSE IF ~NewRegExp(FilenameRegexPattern(ReplaceBackslashes(pattern))).ok THEN "throws"
       ELSE IF Test(NewRegExp(FilenameRegexPattern(ReplaceBackslashes(pattern))).atoms,
                    Filename(normalizedPath))
            THEN "true" ELSE "false"

\* Array.prototype.some over the patterns, in order
RECURSIVE SomeExcludes(_, _)
SomeExcludes(normalizedPath, patterns) ==
  IF patterns = << >> THEN "false"
  ELSE IF PatternExcludes(normalizedPath, Head(patterns)) = "false"
       THEN SomeExcludes(normalizedPath, Tail(patterns))
       ELSE PatternExcludes(normalizedPath, Head(patterns))

IsExcluded(filePath, excludePatterns) ==
  SomeExcludes(ReplaceBackslashes(filePath), excludePatterns)

\* new vscode.Range(startLine, startCharacter, endLine, endCharacter)
Range(startLine, startCharacter, endLine, endCharacter) ==
  [startLine |-> startLine, startCharacter |-> startCharacter,
   endLine |-> endLine, endCharacter |-> endCharacter]

\* CodeLens whose range is the line after the function's first line
CodeLensBelow(func, cfg) ==
  [line |-> func.startLine, complexity |-> func.complexity,
   range |-> Range(func.startLine + 1, 0, func.startLine + 1, 0),
   title |-> GetComplexityStatus(func.complexity, cfg).text]

CodeLens(func, cfg) ==
  [line |-> func.startLine, complexity |-> func.complexity,
   range |-> Range(func.startLine, 0, func.startLine, 0),
   title |-> GetComplexityStatus(func.complexity, cfg).text]

\* createCodeLenses: a lens for every function whose complexity is > 0
RECURSIVE CreateCodeLenses(_, _)
CreateCodeLenses(functions, cfg) ==
  IF functions = << >> THEN << >>
  ELSE (IF Head(functions).complexity > 0
        THEN << CodeLens(Head(functions), cfg) >> ELSE << >>)
       \o CreateCodeLenses(Tail(functions), cfg)

\* how a provideCodeLenses call ends: the promise resolves with lenses or is
\* rejected; analyzed tells whether analyzeFile has been called
Resolved(lenses, analyzed) == [kind |-> "resolved", lenses |-> lenses, analyzed |-> analyzed]
Rejected == [kind |-> "rejected", lenses |-> << >>, analyzed |-> FALSE]
NotCalled == [kind |-> "none", lenses |-> << >>, analyzed |-> FALSE]

ProvideCodeLensesResult(cfg, d) ==
  IF ~cfg.enabled \/ ~cfg.showCodeLens \/ ~IsSupported(d) THEN Resolved(<< >>, FALSE)
  ELSE IF IsExcluded(d.fsPath, cfg.excludePatterns) = "throws" THEN Rejected
  ELSE IF IsExcluded(d.fsPath, cfg.excludePatterns) = "true" THEN Resolved(<< >>, FALSE)
  ELSE IF d.analysis.kind = "throws" THEN Resolved(<< >>, TRUE)
  ELSE Resolved(CreateCodeLenses(d.analysis.functions, cfg), TRUE)

\* exclude patterns a user configures
PatGenerated == << "*", ".", "g", ".", "*" >>
PatBin == << "*", "*", "/", "b", "/", "*", "*" >>
PatTest == << "t", "*" >>
PatCpp == << "*", "*", "/", "c", "+", "+", "/", "*", "*" >>
PatWindows == << "b", "\\", "*" >>

ExcludeSettings ==
  { << >>, << PatGenerated, PatBin >>, << PatTest >>, << PatCpp >>,
    << PatGenerated, PatCpp >>, << PatCpp, PatGenerated >>, << PatWindows >> }

ThresholdSettings ==
  { [warningThreshold |-> 10, errorThreshold |-> 15],
    [warningThreshold |-> 5, errorThreshold |-> 10],
    [warningThreshold |-> 15, errorThreshold |-> 10] }

ComplexityValues == {0, 3, 7, 9, 10, 12, 14, 15, 100}

\* file paths and URI schemes of documents
PathGenerated == << "/", "p", "/", "t", ".", "g", ".", "c", "s" >>
PathPlain == << "/", "p", "/", "s", ".", "c", "s" >>
PathBin == << "/", "p", "/", "b", "/", "d", "/", "s", ".", "c", "s" >>
PathCpp == << "/", "c", "+", "+", "/", "s", ".", "c", "s" >>
PathWindows == << "b", "\\", "s", ".", "c", "s" >>

SchemeFile == << "f", "i", "l", "e" >>
SchemeGit == << "g", "i", "t" >>
SchemeGitFs == << "g", "i", "t", "f", "s" >>

\* what ComplexityAnalyzerFactory.analyzeFile does on the text of a document:
\* it throws, or returns the complexities of the functions
Throws == [kind |-> "throws", functions |-> << >>]
Returns(functions) == [kind |-> "returns", functions |-> functions]
Func(startLine, complexity) == [startLine |-> startLine, complexity |-> complexity]

ThreeFunctions == Returns(<< Func(3, 0), Func(8, 12), Func(20, 15) >>)

\* a function without complexity between functions that have some
FourFunctions == Returns(<< Func(2, 9), Func(12, 3), Func(14, 0), Func(30, 100) >>)

TextDocument(languageId0, scheme, fsPath, analysis) ==
  [languageId |-> languageId0, scheme |-> scheme, fsPath |-> fsPath,
   analysis |-> analysis]

TextDocuments ==
  { TextDocument("csharp", SchemeFile, PathPlain, ThreeFunctions),
    TextDocument("csharp", SchemeFile, PathPlain, FourFunctions),
    TextDocument("csharp", SchemeFile, PathPlain, Returns(<< >>)),
    TextDocument("csharp", SchemeFile, PathPlain, Throws),
    TextDocument("python", SchemeFile, PathPlain, Returns(<< >>)),
    TextDocument("csharp", SchemeGit, PathPlain, ThreeFunctions),
    TextDocument("csharp", SchemeGitFs, PathPlain, ThreeFunctions),
    TextDocument("csharp", SchemeFile, PathGenerated, ThreeFunctions),
    TextDocument("csharp", SchemeFile, PathBin, ThreeFunctions),
    TextDocument("csharp", SchemeFile, PathCpp, ThreeFunctions),
    TextDocument("csharp", SchemeFile, PathCpp, Throws),
    TextDocument("csharp", SchemeFile, PathWindows, ThreeFunctions),
    TextDocument("python", SchemeGit, PathBin, Throws) }

NoStatus == [complexity |-> 0, level |-> "none"]

\* registerCodeLensProvider has returned: no configuration change has been
\* delivered, no timer is set, refresh has not been called; the clock is in ms
Registered == [clock |-> 0, changes |-> << >>, timers |-> << >>, refreshes |-> << >>]

\* no analyzeFunctions call is under way
NoWalk ==
  [phase |-> "idle", next |-> 0, fn |-> 0, body |-> 0, stack |-> << >>, st |-> FreshState,
   scored |-> << >>, recorded |-> << >>, functions |-> << >>,
   lastVisit |-> [node |-> 0, before |-> FreshState, after |-> FreshState]]

(***************************************************************************)
(* The identifiers a caller passes as languageId.                          *)
(***************************************************************************)
UnsupportedIds ==
  { JsString("python"), JsString("unknown-language"), JsString(""), JsNull,
    JsUndefined, JsString("__proto__"), JsString("constructor"),
    JsString("toString") }

NoMemo == [languageId |-> JsUndefined, grammar |-> "", tree |-> << >>, out |-> NoOutcome]

(***************************************************************************)
(* Spec: documents are opened, edited and analyzed in their own language.  *)
(***************************************************************************)
Init ==
  /\ \E d \in 1..Len(Documents) :
        /\ tree = Documents[d].tree
        /\ grammar = Documents[d].grammar
  /\ edits = 0
  /\ languageId = JsUndefined
  /\ raw = << >>
  /\ out = NoOutcome
  /\ memo = NoMemo
  /\ repeated = FALSE
  /\ config = DEFAULT_CONFIG
  /\ document = TextDocument("csharp", SchemeFile, PathPlain, Returns(<< >>))
  /\ codeLenses = NotCalled
  /\ status = NoStatus
  /\ walk = NoWalk
  /\ watcher = Registered

OpenDocument(d) ==
  /\ tree' = Documents[d].tree
  /\ grammar' = Documents[d].grammar
  /\ edits' = 0
  /\ languageId' = JsUndefined
  /\ raw' = << >>
  /\ out' = NoOutcome
  /\ repeated' = FALSE
  /\ UNCHANGED memo
  /\ UNCHANGED <<hostVars, walkVars, refreshVars>>

EditDocument(parent, tpl) ==
  /\ edits < MaxEdits
  /\ Len(tree) < MaxNodes
  /\ tree' = AppendNode(tree, parent, tpl)
  /\ edits' = edits + 1
  /\ languageId' = JsUndefined
  /\ raw' = << >>
  /\ out' = NoOutcome
  /\ UNCHANGED <<grammar, memo, repeated>>
  /\ UNCHANGED <<hostVars, walkVars, refreshVars>>

AnalyzeDocument ==
  /\ languageId' = JsString(grammar)
  /\ raw' = RawAnalysis(tree, languageId')
  /\ out' = AnalyzeFile(out, tree, languageId')
  /\ UNCHANGED <<tree, grammar, edits, memo, repeated>>
  /\ UNCHANGED <<hostVars, walkVars, refreshVars>>

Next ==
  \/ \E d \in 1..Len(Documents) : OpenDocument(d)
  \/ \E parent \in RightmostPath(tree) : \E tpl \in Templates(grammar) :
       EditDocument(parent, tpl)
  \/ AnalyzeDocument

Spec == Init /\ [][Next]_vars

(***************************************************************************)
(* SpecDispatch: analyzeFile is called with every kind of languageId on    *)
(* the test documents; one call is kept and repeated later, after any      *)
(* number of other calls.                                                  *)
(***************************************************************************)
DispatchCall(id, keep) ==
  /\ languageId' = id
  /\ raw' = RawAnalysis(tree, id)
  /\ out' = AnalyzeFile(out, tree, id)
  /\ memo' = IF keep /\ memo = NoMemo
             THEN [languageId |-> id, grammar |-> grammar, tree |-> tree,
                   out |-> out']
             ELSE memo
  /\ repeated' = FALSE
  /\ UNCHANGED <<tree, grammar, edits>>
  /\ UNCHANGED <<hostVars, walkVars, refreshVars>>

RepeatCall ==
  /\ memo # NoMemo
  /\ tree = memo.tree
  /\ languageId' = memo.languageId
  /\ raw' = RawAnalysis(tree, memo.languageId)
  /\ out' = AnalyzeFile(out, tree, memo.languageId)
  /\ repeated' = TRUE
  /\ UNCHANGED <<tree, grammar, edits, memo>>
  /\ UNCHANGED <<hostVars, walkVars, refreshVars>>

NextDispatch ==
  \/ \E d \in 1..Len(Documents) : OpenDocument(d)
  \/ \E id \in {JsString(grammar)} \cup UnsupportedIds :
       \E keep \in BOOLEAN : DispatchCall(id, keep)
  \/ RepeatCall

SpecDispatch == Init /\ [][NextDispatch]_vars

(***************************************************************************)
(* SpecHost: the settings change, documents are shown, the editor asks for *)
(* code lenses and the status of a complexity value is looked up.          *)
(***************************************************************************)
InitHost ==
  /\ tree = CsEmpty
  /\ grammar = "csharp"
  /\ edits = 0
  /\ languageId = JsUndefined
  /\ raw = << >>
  /\ out = NoOutcome
  /\ memo = NoMemo
  /\ repeated = FALSE
  /\ config = DEFAULT_CONFIG
  /\ document = TextDocument("csharp", SchemeFile, PathPlain, Returns(<< >>))
  /\ codeLenses = NotCalled
  /\ status = NoStatus
  /\ walk = NoWalk
  /\ watcher = Registered

\* a setting of the section is updated
UpdateSwitches(enabled, showCodeLens) ==
  /\ config' = [config EXCEPT !.enabled = enabled, !.showCodeLens = showCodeLens]
  /\ codeLenses' = NotCalled
  /\ status' = NoStatus
  /\ UNCHANGED document
  /\ UNCHANGED <<analyzerVars, walkVars, refreshVars>>

UpdateThresholds(th) ==
  /\ config' = [config EXCEPT !.warningThreshold = th.warningThreshold,
                              !.errorThreshold = th.errorThreshold]
  /\ codeLenses' = NotCalled
  /\ status' = NoStatus
  /\ UNCHANGED document
  /\ UNCHANGED <<analyzerVars, walkVars, refreshVars>>

UpdateExcludePatterns(patterns) ==
  /\ config' = [config EXCEPT !.excludePatterns = patterns]
  /\ codeLenses' = NotCalled
  /\ status' = NoStatus
  /\ UNCHANGED document
  /\ UNCHANGED <<analyzerVars, walkVars, refreshVars>>

ShowTextDocument(d) ==
  /\ document' = d
  /\ codeLenses' = NotCalled
  /\ UNCHANGED <<config, status>>
  /\ UNCHANGED <<analyzerVars, walkVars, refreshVars>>

ProvideCodeLenses ==
  /\ codeLenses' = ProvideCodeLensesResult(config, document)
  /\ UNCHANGED <<config, document, status>>
  /\ UNCHANGED <<analyzerVars, walkVars, refreshVars>>

GetComplexityStatusCall(complexity) ==
  /\ status' = [complexity |-> complexity,
                level |-> GetComplexityStatus(complexity, config).level]
  /\ UNCHANGED <<config, document, codeLenses>>
  /\ UNCHANGED <<analyzerVars, walkVars, refreshVars>>

NextHost ==
  \/ \E enabled \in BOOLEAN : \E showCodeLens \in BOOLEAN :
       UpdateSwitches(enabled, showCodeLens)
  \/ \E th \in ThresholdSettings : UpdateThresholds(th)
  \/ \E patterns \in ExcludeSettings : UpdateExcludePatterns(patterns)
  \/ \E d \in TextDocuments : ShowTextDocument(d)
  \/ ProvideCodeLenses
  \/ \E complexity \in ComplexityValues : GetComplexityStatusCall(complexity)

SpecHost == InitHost /\ [][NextHost]_vars

(***************************************************************************)
(* Properties.                                                             *)
(***************************************************************************)
\* the entries of a result that start where node i starts
EntriesAt(functions, t, i) ==
  { k \in 1..Len(functions) : /\ functions[k].startLine = StartRow(t, i)
                              /\ functions[k].startColumn = StartCol(t, i) }

\* the document has been analyzed in its own language
CSharpAnalyzed == grammar = "csharp" /\ out.kind = "array"
GoAnalyzed == grammar = "go" /\ out.kind = "array"

RECURSIVE SumIncrements(_)
SumIncrements(details) ==
  IF details = << >> THEN 0
  ELSE Head(details).increment + SumIncrements(Tail(details))

\* C1: analyzeFile returns an empty sequence, and does not throw, for every
\* languageId that is not a supported language identifier (null, undefined
\* and the empty string included), for every sourceText.
C1_UnsupportedLanguageYieldsEmpty ==
  (out.kind # "none" /\ ToPropertyKey(languageId) \notin SupportedLanguages)
    => out = Outcome("array", << >>)

\* C2: for every FunctionMetrics a language analyzer returns, complexity is
\* the sum of the increments of its details; it is 0 exactly when there are
\* no details and it is never negative.
C2_ComplexityIsSumOfIncrements ==
  \A k \in 1..Len(raw) :
     /\ raw[k].complexity = SumIncrements(raw[k].details)
     /\ (raw[k].complexity = 0) <=> (raw[k].details = << >>)
     /\ raw[k].complexity >= 0

\* a C# function with nested constructs: 4 details whose increments sum to 10
C2_Witness ==
  /\ grammar = "csharp"
  /\ \E k \in 1..Len(raw) : Len(raw[k].details) = 4 /\ raw[k].complexity = 10

\* the reasons of the constructs of the C# rule table (the text heuristics for
\* ERROR nodes and malformed declarations have their own reasons)
CSharpRuleTableReasons ==
  {"if statement", "while loop", "for loop", "foreach loop", "switch statement",
   "switch expression", "try statement", "catch clause", "binary && operator",
   "binary || operator", "ternary operator", "lambda expression (nested)",
   "anonymous method (nested)", "continue statement (nested)",
   "break statement (nested)", "goto statement"}

\* the details of all functions of a result
DetailsOf(functions) ==
  UNION { { functions[k].details[n] : n \in 1..Len(functions[k].details) } :
          k \in 1..Len(functions) }

C5_CSharpEachConstructAddsOne ==
  CSharpAnalyzed =>
    /\ \A d \in DetailsOf(raw) : d.increment = 1
    /\ tree = CsMultipleCatch =>
         /\ Len(out.functions) = 1
         /\ out.functions[1].complexity = 3
         /\ Len(out.functions[1].details) = 3
    /\ tree = CsProcess =>
         /\ Len(out.functions) = 1
         /\ out.functions[1].complexity = 4
         /\ Len(out.functions[1].details) = 4

\* C6: through the dispatcher the Go analyzer adds the nesting level to the
\* increment: ProcessNumbers has complexity 9, MultiplyWithCheck has
\* complexity 3, and for > if > for > if has complexity greater than 5.
C6_GoDispatcherAddsNesting ==
  GoAnalyzed =>
    /\ tree = GoProcessNumbers =>
         \E k \in 1..Len(out.functions) :
            /\ out.functions[k].name = "ProcessNumbers"
            /\ out.functions[k].complexity = 9
    /\ tree = GoMethods =>
         \E k \in 1..Len(out.functions) :
            /\ out.functions[k].name = "*Calculator.MultiplyWithCheck"
            /\ out.functions[k].complexity = 3
    /\ tree = GoNested =>
         /\ Len(out.functions) = 1
         /\ out.functions[1].complexity > 5

\* the nodes of the function declarations nested in function i
NestedFunctionNodes(t, i) ==
  { j \in (i + 1)..SubtreeEnd(t, i) :
      \E a \in (i + 1)..j : CSharpIsFunctionDeclaration(t, a) /\ j <= SubtreeEnd(t, a) }

\* the index of node j once the nodes of N are removed
IndexWithout(N, j) == Cardinality({ k \in 1..j : k \notin N })

\* the document with the nodes of N removed
Without(t, N, kept) ==
  [n \in 1..Len(kept) |-> [t[kept[n]] EXCEPT !.parent = IndexWithout(N, @)]]

\* the document with the functions nested in function i removed
WithoutNested(t, i) ==
  Without(t, NestedFunctionNodes(t, i),
          SelectSeq(Indices(t), LAMBDA j : j \notin NestedFunctionNodes(t, i)))

\* function i is declared inside another function
IsNestedFunction(t, i) ==
  /\ CSharpIsFunctionDeclaration(t, i)
  /\ \E n \in 1..Len(Ancestors(t, i)) : CSharpIsFunctionDeclaration(t, Ancestors(t, i)[n])

\* what a FunctionMetrics says about the score of its function
Scored(f) == [name |-> f.name, complexity |-> f.complexity, details |-> f.details]

\* the result of function i when it is analyzed without its nested functions
AloneResult(t, i) ==
  CSharpAnalyzeFunction(FreshState, WithoutNested(t, i),
                        IndexWithout(NestedFunctionNodes(t, i), i)).metrics

IsBodylessDeclaration(g, t, i) ==
  IF g = "csharp"
  THEN /\ CSharpIsFunctionDeclaration(t, i)
       /\ FindChild(t, i, {"block", "arrow_expression_clause"}) = 0
  ELSE /\ GoIsFunctionDeclaration(t, i)
       /\ FindChild(t, i, {"block"}) = 0

\* C8: a function declaration with no block or expression-body child (an
\* interface or abstract method) has no FunctionMetrics entry in the result,
\* whatever sibling nodes follow it in its parent.
C8_BodylessDeclarationsSkipped ==
  out.kind = "array" =>
    \A i \in 1..Len(tree) :
       IsBodylessDeclaration(grammar, tree, i) => EntriesAt(out.functions, tree, i) = {}

LocatedFunctions(g, t) ==
  SelectSeq(Indices(t),
            LAMBDA i : IF g = "csharp"
                       THEN CSharpIsFunctionDeclaration(t, i) /\ CSharpGetFunctionBody(t, i) # 0
                       ELSE GoIsFunctionDeclaration(t, i) /\ GoGetFunctionBody(t, i) # 0)

\* C12: analyzeFunctions returns exactly one FunctionMetrics for each
\* function declaration whose body is located, in pre-order of those nodes
\* (an enclosing function before the functions nested in it); a tree without
\* function declarations yields the empty sequence.
C12_OneEntryPerLocatedFunctionInOrder ==
  out.kind = "array" =>
    /\ Len(raw) = Len(LocatedFunctions(grammar, tree))
    /\ \A k \in 1..Len(raw) :
         /\ raw[k].startLine = StartRow(tree, LocatedFunctions(grammar, tree)[k])
         /\ raw[k].startColumn = StartCol(tree, LocatedFunctions(grammar, tree)[k])
    /\ (\A i \in 1..Len(tree) :
          ~CSharpIsFunctionDeclaration(tree, i) /\ ~GoIsFunctionDeclaration(tree, i))
         => raw = << >>

\* two functions are reported, the enclosing one before the one nested in it
C12_Witness ==
  /\ out.kind = "array"
  /\ Len(raw) = 2
  /\ Len(LocatedFunctions(grammar, tree)) = 2
  /\ LocatedFunctions(grammar, tree)[1] \in
       { Ancestors(tree, LocatedFunctions(grammar, tree)[2])[n] :
           n \in 1..Len(Ancestors(tree, LocatedFunctions(grammar, tree)[2])) }
  /\ raw[1].startLine < raw[2].startLine


\* the constructs that raise the nesting level of what they enclose
CSharpNestingConstructs ==
  {"if_statement", "while_statement", "for_statement", "foreach_statement",
   "switch_statement", "switch_expression", "try_statement", "catch_clause",
   "lambda_expression", "anonymous_method_expression"}

\* the number of constructs of `kinds` that enclose node j inside body b
EnclosingConstructs(t, b, j, kinds) ==
  Cardinality({ a \in b..(j - 1) : j <= SubtreeEnd(t, a) /\ t[a].type \in kinds })

\* the nodes of the body of function i that belong to function i itself
CSharpOwnNodes(t, i) ==
  { j \in CSharpGetFunctionBody(t, i)..SubtreeEnd(t, CSharpGetFunctionBody(t, i)) :
      j \notin NestedFunctionNodes(t, i) }

\* C13: in the C# analyzer the nesting level recorded with a detail is the
\* number of nesting-increasing constructs (if, while, for, foreach, switch
\* statement, switch expression, try, catch, lambda, anonymous method) that
\* enclose the construct inside the function body; if > while > if > break is
\* recorded at nesting 0, 1, 2, 3.
C13_CSharpNestingCountsEnclosingConstructs ==
  CSharpAnalyzed =>
    /\ \A k \in 1..Len(raw) : \A n \in 1..Len(raw[k].details) :
         \A j \in CSharpOwnNodes(tree, LocatedFunctions(grammar, tree)[k]) :
           (/\ StartRow(tree, j) = raw[k].details[n].line
            /\ StartCol(tree, j) = raw[k].details[n].column
            /\ CSharpGetComplexityReason(tree, j) = raw[k].details[n].reason)
             => raw[k].details[n].nesting
                  = EnclosingConstructs(tree,
                      CSharpGetFunctionBody(tree, LocatedFunctions(grammar, tree)[k]),
                      j, CSharpNestingConstructs)
    /\ tree = CsNesting =>
         /\ Len(raw) = 1
         /\ [n \in 1..Len(raw[1].details) |-> raw[1].details[n].nesting]
              = << 0, 1, 2, 3 >>


\* the kinds of node that are scored by the patterns of their text
CSharpTextScoredKinds == {"ERROR", "field_declaration", "variable_declaration"}

\* C14: the text-pattern heuristics of the C# analyzer contribute only inside a
\* preprocessor block: an ERROR, field_declaration or variable_declaration node
\* of a function body with no preproc_* ancestor yields no detail (and so adds
\* nothing to the complexity).
C14_TextHeuristicsOnlyInPreprocessorBlock ==
  CSharpAnalyzed =>
    \A k \in 1..Len(raw) :
      \A j \in CSharpOwnNodes(tree, LocatedFunctions(grammar, tree)[k]) :
        (/\ tree[j].type \in CSharpTextScoredKinds
         /\ ~CSharpIsInPreprocessorBlock(tree, j))
          => \A n \in 1..Len(raw[k].details) :
               ~(/\ raw[k].details[n].line = StartRow(tree, j)
                 /\ raw[k].details[n].column = StartCol(tree, j)
                 /\ raw[k].details[n].reason \notin CSharpRuleTableReasons)


\* the nodes of the body of Go function i that belong to function i itself
GoOwnNodes(t, i) ==
  { j \in GoGetFunctionBody(t, i)..SubtreeEnd(t, GoGetFunctionBody(t, i)) :
      ~\E a \in (i + 1)..j : GoIsFunctionDeclaration(t, a) /\ j <= SubtreeEnd(t, a) }

OwnNodes(g, t, i) == IF g = "csharp" THEN CSharpOwnNodes(t, i) ELSE GoOwnNodes(t, i)

FunctionBody(g, t, i) ==
  IF g = "csharp" THEN CSharpGetFunctionBody(t, i) ELSE GoGetFunctionBody(t, i)

\* the value of the nesting counter when the walk of body b reaches node j:
\* the number of enclosing nodes of the body for which increasesNesting holds
NestingLevelAt(g, t, b, j) ==
  Cardinality({ a \in b..(j - 1) :
                  /\ j <= SubtreeEnd(t, a)
                  /\ IF g = "csharp" THEN CSharpIncreasesNesting(t, a)
                                     ELSE GoIncreasesNesting(t, a) })

\* lambda, anonymous method, function literal, unlabeled break or continue
IsNestedOnlyConstruct(g, t, j) ==
  IF g = "csharp"
  THEN t[j].type \in {"lambda_expression", "anonymous_method_expression",
                      "break_statement", "continue_statement"}
  ELSE \/ t[j].type = "func_literal"
       \/ t[j].type \in {"break_statement", "continue_statement"}
          /\ FindChild(t, j, {"label_name"}) = 0

HasDetailAt(f, t, j) ==
  \E n \in 1..Len(f.details) :
    f.details[n].line = StartRow(t, j) /\ f.details[n].column = StartCol(t, j)

\* C15: a lambda or anonymous method (C#), a function literal (Go) and an
\* unlabeled break or continue produce a detail if and only if the nesting
\* level at the node is greater than 0.
C15_NestedOnlyConstructsScoredIffNested ==
  out.kind = "array" =>
    \A k \in 1..Len(raw) :
      \A j \in OwnNodes(grammar, tree, LocatedFunctions(grammar, tree)[k]) :
        IsNestedOnlyConstruct(grammar, tree, j)
          => (HasDetailAt(raw[k], tree, j)
                <=> NestingLevelAt(grammar, tree,
                      FunctionBody(grammar, tree, LocatedFunctions(grammar, tree)[k]),
                      j) > 0)

\* a function with a function literal at nesting 0 (no detail) and a
\* continue inside a literal inside a loop (a detail)
C15_Witness ==
  /\ out.kind = "array"
  /\ Len(raw) = 1
  /\ \E j \in OwnNodes(grammar, tree, LocatedFunctions(grammar, tree)[1]) :
       /\ IsNestedOnlyConstruct(grammar, tree, j)
       /\ NestingLevelAt(grammar, tree,
            FunctionBody(grammar, tree, LocatedFunctions(grammar, tree)[1]), j) = 0
       /\ ~HasDetailAt(raw[1], tree, j)
  /\ \E j \in OwnNodes(grammar, tree, LocatedFunctions(grammar, tree)[1]) :
       /\ IsNestedOnlyConstruct(grammar, tree, j)
       /\ NestingLevelAt(grammar, tree,
            FunctionBody(grammar, tree, LocatedFunctions(grammar, tree)[1]), j) > 0
       /\ HasDetailAt(raw[1], tree, j)


\* the details of f recorded at the position of node j
DetailsAt(f, t, j) ==
  { n \in 1..Len(f.details) :
      f.details[n].line = StartRow(t, j) /\ f.details[n].column = StartCol(t, j) }

\* C16: in the Go analyzer a break or continue that carries a label
\* contributes 1 at every nesting level, nesting 0 included, with reason
\* "labeled break statement" or "labeled continue statement"; a goto always
\* contributes 1; for > for > if > break outer has complexity 4.
C16_GoLabeledJumpsAlwaysScored ==
  GoAnalyzed =>
    /\ \A k \in 1..Len(raw) :
         \A j \in GoOwnNodes(tree, LocatedFunctions(grammar, tree)[k]) :
           /\ (/\ tree[j].type \in {"break_statement", "continue_statement"}
               /\ FindChild(tree, j, {"label_name"}) # 0)
                => /\ Cardinality(DetailsAt(raw[k], tree, j)) = 1
                   /\ \A n \in DetailsAt(raw[k], tree, j) :
                        /\ raw[k].details[n].increment = 1
                        /\ raw[k].details[n].reason
                             = (IF tree[j].type = "break_statement"
                                THEN "labeled break statement"
                                ELSE "labeled continue statement")
           /\ tree[j].type = "goto_statement"
                => /\ Cardinality(DetailsAt(raw[k], tree, j)) = 1
                   /\ \A n \in DetailsAt(raw[k], tree, j) :
                        /\ raw[k].details[n].increment = 1
                        /\ raw[k].details[n].reason = "goto statement"
    /\ tree = GoLabeledBreak => Len(raw) = 1 /\ raw[1].complexity = 4

\* a labeled break directly in a function body, at nesting 0, is recorded
C16_Witness ==
  /\ GoAnalyzed
  /\ Len(raw) = 1
  /\ \E j \in GoOwnNodes(tree, LocatedFunctions(grammar, tree)[1]) :
       /\ tree[j].type = "break_statement"
       /\ FindChild(tree, j, {"label_name"}) # 0
       /\ NestingLevelAt(grammar, tree,
            GoGetFunctionBody(tree, LocatedFunctions(grammar, tree)[1]), j) = 0
       /\ \E n \in DetailsAt(raw[1], tree, j) :
            raw[1].details[n].nesting = 0 /\ raw[1].details[n].increment = 1


GoTypeKinds == {"type_identifier", "pointer_type", "qualified_type"}

\* the children of node i of one of the given kinds, as a set
ChildrenOfKind(t, i, kinds) == { j \in (i + 1)..Len(t) : t[j].parent = i /\ t[j].type \in kinds }

Min(S) == CHOOSE x \in S : \A y \in S : x <= y

\* the receiver type nodes of method i: the type children of the parameter
\* declarations of its first parameter list
ReceiverTypes(t, i) ==
  IF ChildrenOfKind(t, i, {"parameter_list"}) = {} THEN {}
  ELSE { ty \in 1..Len(t) :
           /\ t[ty].type \in GoTypeKinds
           /\ t[ty].parent # 0
           /\ t[t[ty].parent].type = "parameter_declaration"
           /\ t[t[ty].parent].parent = Min(ChildrenOfKind(t, i, {"parameter_list"})) }

\* C17: a Go method whose receiver has a resolvable type is named
\* "{ReceiverType}.{MethodName}", the receiver type text verbatim with its
\* leading '*'; a plain function is named by its identifier; a declaration
\* with no identifier is named "<anonymous>".
C17_GoFunctionNames ==
  GoAnalyzed =>
    /\ \A k \in 1..Len(raw) :
         /\ (/\ tree[LocatedFunctions(grammar, tree)[k]].type = "method_declaration"
             /\ ChildrenOfKind(tree, LocatedFunctions(grammar, tree)[k],
                               {"field_identifier"}) # {}
             /\ ReceiverTypes(tree, LocatedFunctions(grammar, tree)[k]) # {})
              => raw[k].name
                   = NodeText(tree, Min(ReceiverTypes(tree, LocatedFunctions(grammar, tree)[k])))
                     \o "."
                     \o tree[Min(ChildrenOfKind(tree, LocatedFunctions(grammar, tree)[k],
                                                {"field_identifier"}))].text
         /\ tree[LocatedFunctions(grammar, tree)[k]].type = "function_declaration"
              => raw[k].name
                   = (IF ChildrenOfKind(tree, LocatedFunctions(grammar, tree)[k],
                                        {"identifier"}) = {}
                      THEN "<anonymous>"
                      ELSE tree[Min(ChildrenOfKind(tree, LocatedFunctions(grammar, tree)[k],
                                                   {"identifier"}))].text)
    /\ tree = GoCounter => Len(raw) = 1 /\ raw[1].name = "*Counter.Increment"
    /\ tree = GoMethods => Len(raw) = 2 /\ raw[1].name = "Calculator.Add"

\* a method with a pointer receiver has been analyzed and named
C17_Witness ==
  /\ GoAnalyzed
  /\ \E k \in 1..Len(raw) :
       /\ tree[LocatedFunctions(grammar, tree)[k]].type = "method_declaration"
       /\ \E ty \in ReceiverTypes(tree, LocatedFunctions(grammar, tree)[k]) :
            tree[ty].type = "pointer_type"
       /\ raw[k].name = "*Counter.Increment"


\* the declarations that introduce a type a constructor can belong to
CSharpTypeDeclarationKinds ==
  {"class_declaration", "struct_declaration", "record_declaration",
   "record_struct_declaration"}

\* the type declarations that enclose node i
EnclosingTypes(t, i) ==
  { a \in 1..(i - 1) : i <= SubtreeEnd(t, a) /\ t[a].type \in CSharpTypeDeclarationKinds }

Max(S) == CHOOSE x \in S : \A y \in S : x >= y

\* C18: a C# constructor is named "<T> (constructor)" where T is the name of
\* the type that encloses it, and "<constructor>" only when no enclosing type
\* can be resolved; a destructor is always named "~<destructor>".
C18_CSharpConstructorNames ==
  CSharpAnalyzed =>
    \A k \in 1..Len(raw) :
      /\ (/\ tree[LocatedFunctions(grammar, tree)[k]].type = "constructor_declaration"
          /\ EnclosingTypes(tree, LocatedFunctions(grammar, tree)[k]) # {}
          /\ ChildrenOfKind(tree, Max(EnclosingTypes(tree, LocatedFunctions(grammar, tree)[k])),
                            {"identifier"}) # {})
           => raw[k].name
                = tree[Min(ChildrenOfKind(tree,
                             Max(EnclosingTypes(tree, LocatedFunctions(grammar, tree)[k])),
                             {"identifier"}))].text \o " (constructor)"
      /\ tree[LocatedFunctions(grammar, tree)[k]].type = "destructor_declaration"
           => raw[k].name = "~<destructor>"


\* what an exclude pattern means as a glob: ** stands for any characters, *
\* for characters other than /, every other character for itself
RECURSIVE GlobMatches(_, _)
GlobMatches(p, s) ==
  IF p = << >> THEN s = << >>
  ELSE IF Len(p) >= 2 /\ p[1] = "*" /\ p[2] = "*"
       THEN \E n \in 0..Len(s) : GlobMatches(SubSeq(p, 3, Len(p)), SubSeq(s, n + 1, Len(s)))
  ELSE IF p[1] = "*"
       THEN \E n \in 0..Len(s) :
              /\ \A k \in 1..n : s[k] # "/"
              /\ GlobMatches(Tail(p), SubSeq(s, n + 1, Len(s)))
  ELSE s # << >> /\ s[1] = p[1] /\ GlobMatches(Tail(p), Tail(s))

\* the path of the document matches one of the configured exclude patterns
PathMatchesExcludePattern ==
  \E n \in 1..Len(config.excludePatterns) :
    IF \E k \in 1..Len(config.excludePatterns[n]) :
         config.excludePatterns[n][k] \in {"/", "\\"}
    THEN GlobMatches(ReplaceBackslashes(config.excludePatterns[n]),
                     ReplaceBackslashes(document.fsPath))
    ELSE GlobMatches(config.excludePatterns[n],
                     Filename(ReplaceBackslashes(document.fsPath)))

\* one of the five cases in which the analyzer is not to be invoked
NoLensesWanted ==
  \/ ~config.enabled
  \/ ~config.showCodeLens
  \/ document.languageId \notin {"csharp"}
  \/ StartsWith(document.scheme, SchemeGit)
  \/ PathMatchesExcludePattern

\* C19: provideCodeLenses returns an empty list, and never fails, whenever the
\* extension is disabled, showCodeLens is off, the language is not supported,
\* the URI scheme starts with "git", the path matches an exclude pattern, or
\* the analyzer throws; in the first five cases the analyzer is not invoked.
C19_ProvideCodeLensesNeverFails ==
  codeLenses.kind # "none" =>
    /\ NoLensesWanted
         => /\ codeLenses.kind = "resolved"
            /\ codeLenses.lenses = << >>
            /\ ~codeLenses.analyzed
    /\ (codeLenses.analyzed /\ document.analysis.kind = "throws")
         => codeLenses.kind = "resolved" /\ codeLenses.lenses = << >>

Rank(level) == IF level = "low" THEN 0 ELSE IF level = "warning" THEN 1 ELSE 2

\* C20: getComplexityStatus(c) is "error" when c >= errorThreshold, otherwise
\* "warning" when c >= warningThreshold, otherwise "low"; with the defaults 10
\* and 15 the values 0 and 9 are low, 10 and 14 warning, 15 and 100 error; for
\* warningThreshold < errorThreshold the level never decreases as c increases.
C20_ComplexityStatusLevels ==
  status.level # "none" =>
    /\ status.level
         = (IF status.complexity >= config.errorThreshold THEN "error"
            ELSE IF status.complexity >= config.warningThreshold THEN "warning"
            ELSE "low")
    /\ (config.warningThreshold = 10 /\ config.errorThreshold = 15)
         => /\ status.complexity \in {0, 9} => status.level = "low"
            /\ status.complexity \in {10, 14} => status.level = "warning"
            /\ status.complexity \in {15, 100} => status.level = "error"
    /\ config.warningThreshold < config.errorThreshold
         => \A c \in ComplexityValues :
              /\ c <= status.complexity
                   => Rank(GetComplexityStatus(c, config).level) <= Rank(status.level)
              /\ c >= status.complexity
                   => Rank(GetComplexityStatus(c, config).level) >= Rank(status.level)

\* the status of 10 has been looked up under the default thresholds
C20_Witness ==
  /\ config.warningThreshold = 10
  /\ config.errorThreshold = 15
  /\ status.complexity = 10
  /\ status.level = "warning"



(***************************************************************************)
(* analyzeFunctions one step at a time: the position of the walk over the  *)
(* tree, the stack of the visit calls that have not returned, and the      *)
(* analyzer's fields in between.                                           *)
(***************************************************************************)
IsFunctionDeclaration(g, t, i) ==
  IF g = "csharp" THEN CSharpIsFunctionDeclaration(t, i) ELSE GoIsFunctionDeclaration(t, i)

GetFunctionBody(g, t, i) ==
  IF g = "csharp" THEN CSharpGetFunctionBody(t, i) ELSE GoGetFunctionBody(t, i)

GetFunctionName(g, t, i) ==
  IF g = "csharp" THEN CSharpGetFunctionName(t, i) ELSE GoGetFunctionName(t, i)

IncreasesNesting(g, t, i) ==
  IF g = "csharp" THEN CSharpIncreasesNesting(t, i) ELSE GoIncreasesNesting(t, i)

\* VisitedChildren whose loop starts at the second child
VisitedChildrenButFirst(g, t, i) ==
  IF Children(t, i) = << >> THEN << >>
  ELSE SelectSeq(Tail(Children(t, i)), LAMBDA j : ~IsFunctionDeclaration(g, t, j))

VisitedChildren(g, t, i) ==
  IF g = "csharp" THEN CSharpVisitedChildren(t, i) ELSE GoVisitedChildren(t, i)

\* Record that puts the new detail in front of the earlier ones
RecordInFront(g, st, t, i) ==
  IF g = "csharp"
  THEN [CSharpRecord(st, t, i) EXCEPT
          !.details = SubSeq(@, Len(st.details) + 1, Len(@)) \o st.details]
  ELSE [GoRecord(st, t, i) EXCEPT
          !.details = SubSeq(@, Len(st.details) + 1, Len(@)) \o st.details]

Record(g, st, t, i) ==
  IF g = "csharp" THEN CSharpRecord(st, t, i) ELSE GoRecord(st, t, i)

\* (history) the nodes whose visit has pushed a detail, in the order of the pushes
Recorded(g, st, t, i, nodes) ==
  IF Len(Record(g, st, t, i).details) > Len(st.details) THEN Append(nodes, i) ELSE nodes

\* visit up to its loop over the children: the node is scored, and
\* this.nesting++ if the node increases nesting
VisitEnter(g, st, t, i) ==
  IF IncreasesNesting(g, t, i)
  THEN [Record(g, st, t, i) EXCEPT !.nesting = @ + 1]
  ELSE Record(g, st, t, i)

\* VisitLeave that forgets this.nesting--
VisitLeaveKeepsNesting(g, st, t, i) == st

\* visit after its loop over the children: this.nesting-- in the branch of
\* the nodes that increase nesting
VisitLeave(g, st, t, i) ==
  IF IncreasesNesting(g, t, i) THEN [st EXCEPT !.nesting = @ - 1] ELSE st

\* one call of visit that has not returned: its node, the children its loop
\* has still to walk into, and (history) the analyzer's fields when it was called
Frame(g, st, t, i) ==
  [node |-> i, kids |-> VisitedChildren(g, t, i), before |-> st]

NoVisit == [node |-> 0, before |-> FreshState, after |-> FreshState]

\* how often each node has been visited for the function under analysis
Unscored(t) == [j \in 1..Len(t) |-> 0]

\* analyzeFile(sourceText): a new analyzer, the tree t parsed with grammar g,
\* analyzeFunctions about to look at the root; every call has an analyzer of
\* its own, so one call is followed to its end
StartWalk(g, t) ==
  /\ walk.phase = "idle"
  /\ tree' = t
  /\ grammar' = g
  /\ walk' = [phase |-> "locating", next |-> 1, fn |-> 0, body |-> 0, stack |-> << >>,
              st |-> FreshState, scored |-> Unscored(t), recorded |-> << >>,
              functions |-> << >>, lastVisit |-> NoVisit]
  /\ UNCHANGED <<edits, languageId, raw, out, memo, repeated>>
  /\ UNCHANGED <<hostVars, refreshVars>>

\* the source text is one of the sample documents
WalkDocument(d) == StartWalk(Documents[d].grammar, Documents[d].tree)

\* the source text is a sample document after one edit
WalkEditedDocument(d, parent, tpl) ==
  StartWalk(Documents[d].grammar, AppendNode(Documents[d].tree, parent, tpl))

\* the closure of analyzeFunctions on a node that is no function declaration
LocateStep ==
  /\ walk.phase = "locating"
  /\ walk.next <= Len(tree)
  /\ ~IsFunctionDeclaration(grammar, tree, walk.next)
  /\ walk' = [walk EXCEPT !.next = @ + 1]
  /\ UNCHANGED <<analyzerVars, hostVars, refreshVars>>

\* analyzeFunction on a declaration without a body: the fields are reset and
\* null is returned
SkipFunction ==
  /\ walk.phase = "locating"
  /\ walk.next <= Len(tree)
  /\ IsFunctionDeclaration(grammar, tree, walk.next)
  /\ GetFunctionBody(grammar, tree, walk.next) = 0
  /\ walk' = [walk EXCEPT !.next = @ + 1, !.fn = walk.next, !.body = 0,
                          !.st = ResetState(walk.st),
                          !.scored = Unscored(tree),
                          !.recorded = << >>]
  /\ UNCHANGED <<analyzerVars, hostVars, refreshVars>>

\* analyzeFunction up to this.visit(body): the fields are reset and visit is
\* called on the body
BeginFunction ==
  /\ walk.phase = "locating"
  /\ walk.next <= Len(tree)
  /\ IsFunctionDeclaration(grammar, tree, walk.next)
  /\ GetFunctionBody(grammar, tree, walk.next) # 0
  /\ walk' = [walk EXCEPT
       !.phase = "visiting",
       !.fn = walk.next,
       !.body = GetFunctionBody(grammar, tree, walk.next),
       !.st = VisitEnter(grammar, ResetState(walk.st), tree,
                         GetFunctionBody(grammar, tree, walk.next)),
       !.stack = << Frame(grammar, ResetState(walk.st), tree,
                          GetFunctionBody(grammar, tree, walk.next)) >>,
       !.scored = [Unscored(tree) EXCEPT
                     ![GetFunctionBody(grammar, tree, walk.next)] = 1],
       !.recorded = Recorded(grammar, ResetState(walk.st), tree,
                             GetFunctionBody(grammar, tree, walk.next), << >>)]
  /\ UNCHANGED <<analyzerVars, hostVars, refreshVars>>

\* the loop of the innermost visit calls visit on its next child
EnterChild ==
  /\ walk.phase = "visiting"
  /\ walk.stack # << >>
  /\ Head(walk.stack).kids # << >>
  /\ walk' = [walk EXCEPT
       !.st = VisitEnter(grammar, walk.st, tree, Head(Head(walk.stack).kids)),
       !.stack = << Frame(grammar, walk.st, tree, Head(Head(walk.stack).kids)),
                    [Head(walk.stack) EXCEPT !.kids = Tail(@)] >>
                 \o Tail(walk.stack),
       !.scored = [@ EXCEPT ![Head(Head(walk.stack).kids)] = @ + 1],
       !.recorded = Recorded(grammar, walk.st, tree, Head(Head(walk.stack).kids), @)]
  /\ UNCHANGED <<analyzerVars, hostVars, refreshVars>>

\* the loop of the innermost visit is through: the call returns
ReturnFromVisit ==
  /\ walk.phase = "visiting"
  /\ walk.stack # << >>
  /\ Head(walk.stack).kids = << >>
  /\ walk' = [walk EXCEPT
       !.st = VisitLeave(grammar, walk.st, tree, Head(walk.stack).node),
       !.stack = Tail(walk.stack),
       !.lastVisit = [node |-> Head(walk.stack).node,
                      before |-> Head(walk.stack).before,
                      after |-> VisitLeave(grammar, walk.st, tree,
                                           Head(walk.stack).node)]]
  /\ UNCHANGED <<analyzerVars, hostVars, refreshVars>>

\* analyzeFunction after this.visit(body): the metrics are returned and
\* pushed, and the closure of analyzeFunctions goes on with the children of
\* the declaration
EndFunction ==
  /\ walk.phase = "visiting"
  /\ walk.stack = << >>
  /\ walk' = [walk EXCEPT
       !.phase = "locating",
       !.next = walk.fn + 1,
       !.functions = Append(@, FunctionMetrics(GetFunctionName(grammar, tree, walk.fn),
                                               walk.st, tree, walk.fn))]
  /\ UNCHANGED <<analyzerVars, hostVars, refreshVars>>

\* the closure of analyzeFunctions has been through the whole tree
FinishWalk ==
  /\ walk.phase = "locating"
  /\ walk.next > Len(tree)
  /\ walk' = [walk EXCEPT !.phase = "finished"]
  /\ UNCHANGED <<analyzerVars, hostVars, refreshVars>>

WalkStep ==
  \/ LocateStep
  \/ SkipFunction
  \/ BeginFunction
  \/ EnterChild
  \/ ReturnFromVisit
  \/ EndFunction
  \/ FinishWalk

NextWalk ==
  \/ \E d \in 1..Len(Documents) : WalkDocument(d)
  \/ \E d \in 1..Len(Documents) :
       \E parent \in RightmostPath(Documents[d].tree) :
         \E tpl \in Templates(Documents[d].grammar) :
           WalkEditedDocument(d, parent, tpl)
  \/ WalkStep

SpecWalk == Init /\ [][NextWalk]_vars

\* analyzeFunctions is synchronous code: once called it runs until it returns
SpecWalkFair == SpecWalk /\ WF_vars(WalkStep)

\* the walk, when through, has produced what analyzeFunctions returns
WalkAgrees ==
  walk.phase = "finished" =>
    walk.functions = (IF grammar = "csharp" THEN CSharpAnalyzeFile(tree)
                      ELSE GoAnalyzeFile(tree))



\* C21: in both analyzers a visit leaves the nesting counter at the value it
\* had when the visit was called, so the counter is 0 again when the walk of a
\* function body has returned; the counter is never negative during a walk;
\* and the visit of a node that increases nesting and has no children changes
\* nothing but what recording the node's own contribution changes.
C21_VisitRestoresNesting ==
  /\ walk.st.nesting >= 0
  /\ walk.lastVisit.after.nesting = walk.lastVisit.before.nesting
  /\ (walk.phase = "visiting" /\ walk.stack = << >>) => walk.st.nesting = 0
  /\ (/\ walk.lastVisit.node # 0
      /\ IncreasesNesting(grammar, tree, walk.lastVisit.node)
      /\ Children(tree, walk.lastVisit.node) = << >>)
       => walk.lastVisit.after = Record(grammar, walk.lastVisit.before, tree,
                                        walk.lastVisit.node)

\* the visit of a nested construct without children has returned, and it had
\* scored the construct
C21_Witness ==
  /\ walk.lastVisit.node # 0
  /\ IncreasesNesting(grammar, tree, walk.lastVisit.node)
  /\ Children(tree, walk.lastVisit.node) = << >>
  /\ walk.lastVisit.before.nesting >= 1
  /\ Len(walk.lastVisit.after.details) > Len(walk.lastVisit.before.details)



\* position p is not after position q in the source
NotAfter(p, q) == p.line < q.line \/ (p.line = q.line /\ p.column <= q.column)

\* C22: the details of a function are in the pre-order of its body: they are
\* the details of the scored nodes in the order the nodes stand in the tree
\* (a construct that begins earlier in the source has its detail earlier),
\* and the (line, column) of successive details never decreases.
C22_DetailsInPreOrder ==
  /\ Len(walk.recorded) = Len(walk.st.details)
  /\ \A n \in 1..Len(walk.recorded) :
       /\ walk.st.details[n].line = StartRow(tree, walk.recorded[n])
       /\ walk.st.details[n].column = StartCol(tree, walk.recorded[n])
  /\ \A n \in 1..Len(walk.recorded) : \A m \in 1..Len(walk.recorded) :
       n < m => /\ walk.recorded[n] < walk.recorded[m]
                /\ NotAfter(walk.st.details[n], walk.st.details[m])

\* a body walk has returned with three details or more, not all on one line
C22_Witness ==
  /\ walk.phase = "visiting"
  /\ walk.stack = << >>
  /\ Len(walk.st.details) >= 3
  /\ walk.st.details[1].line < walk.st.details[3].line



\* the nodes of the subtree of body b that are not inside a function
\* declaration nested in it
BodyNodes(g, t, b) ==
  { j \in b..SubtreeEnd(t, b) :
      ~\E a \in (b + 1)..j : IsFunctionDeclaration(g, t, a) /\ j <= SubtreeEnd(t, a) }

\* C23: for every finite tree analyzeFunctions terminates, and every node of
\* the body subtree of a function that is not inside a nested function
\* declaration is scored exactly once: no node is scored twice, and when the
\* walk of the body has returned each of these nodes has been scored.
C23_WalkTerminatesScoringOnce ==
  /\ [](\A j \in 1..Len(walk.scored) : walk.scored[j] <= 1)
  /\ []((walk.phase = "visiting" /\ walk.stack = << >>)
          => \A j \in BodyNodes(grammar, tree, GetFunctionBody(grammar, tree, walk.fn)) :
               walk.scored[j] = 1)
  /\ (walk.phase # "idle") ~> (walk.phase = "finished")

\* the walk of a body of five nodes or more that holds a nested function
\* declaration has returned
C23_Witness ==
  /\ walk.phase = "visiting"
  /\ walk.stack = << >>
  /\ Cardinality(BodyNodes(grammar, tree, GetFunctionBody(grammar, tree, walk.fn))) >= 5
  /\ \E a \in GetFunctionBody(grammar, tree, walk.fn)
                ..SubtreeEnd(tree, GetFunctionBody(grammar, tree, walk.fn)) :
       IsFunctionDeclaration(grammar, tree, a)



\* the subtree of node i as a tree of its own, every node where it stands in
\* the source
Subtree(t, i) ==
  [n \in 1..(SubtreeEnd(t, i) - i + 1) |->
     [t[i + n - 1] EXCEPT !.parent = IF n = 1 THEN 0 ELSE @ - (i - 1)]]

\* analyzeFunction of a new analyzer on declaration i of tree t
AnalyzeFunctionFresh(g, t, i) ==
  IF g = "csharp" THEN CSharpAnalyzeFunction(FreshState, t, i)
  ELSE GoAnalyzeFunction(FreshState, t, i)

\* the k-th function of the tree whose body is located
Located(k) == LocatedFunctions(grammar, tree)[k]

DeclarationBoundaries(t, i) ==
  { q \in (i + 1)..Len(t) :
      /\ t[q].parent = t[i].parent
      /\ \/ t[q].type \in CSharpFunctionKinds
         \/ t[q].type \in {"class_declaration", "interface_declaration"} }

\* the preproc_if siblings after declaration i with no earlier preproc_if and
\* no declaration boundary between i and them
SubstituteBodies(t, i) ==
  { p \in (i + 1)..Len(t) :
      /\ t[i].parent # 0
      /\ t[p].parent = t[i].parent
      /\ t[p].type = "preproc_if"
      /\ \A q \in (i + 1)..(p - 1) :
           t[q].parent = t[i].parent
             => t[q].type # "preproc_if" /\ q \notin DeclarationBoundaries(t, i) }

\* the last child of declaration i is the token ';'
EndsWithSemicolon(t, i) ==
  \E c \in (i + 1)..Len(t) :
    /\ t[c].parent = i
    /\ t[c].type = ";"
    /\ \A d \in (c + 1)..Len(t) : t[d].parent # i

PositiveFunctions ==
  SelectSeq(document.analysis.functions, LAMBDA f : f.complexity > 0)

\* C26: when provideCodeLenses produces lenses for the analyzed functions,
\* there is exactly one lens for each function whose complexity is > 0 and
\* none for a function of complexity 0, the lenses are in the order in which
\* the functions were reported, and each lens spans character 0 to character
\* 0 of the line the function's startLine gives.
C26_OneLensPerComplexFunction ==
  (/\ codeLenses.kind = "resolved"
   /\ codeLenses.analyzed
   /\ document.analysis.kind = "returns")
    => /\ Len(codeLenses.lenses) = Len(PositiveFunctions)
       /\ \A n \in 1..Len(codeLenses.lenses) :
            /\ codeLenses.lenses[n].complexity = PositiveFunctions[n].complexity
            /\ codeLenses.lenses[n].range
                 = Range(PositiveFunctions[n].startLine, 0,
                         PositiveFunctions[n].startLine, 0)

\* lenses were produced for a document that reports a function of complexity
\* 0 between functions of complexity > 0
C26_Witness ==
  /\ codeLenses.kind = "resolved"
  /\ codeLenses.analyzed
  /\ Len(codeLenses.lenses) = 3
  /\ Len(document.analysis.functions) = 4
  /\ document.analysis.functions[3].complexity = 0
  /\ codeLenses.lenses[3].range.startLine = document.analysis.functions[4].startLine



\* C27: every detail of a function lies inside the span reported for the
\* function: startLine <= detail.line <= endLine, in the analyzer's 0-based
\* positions.
C27_DetailsInsideSpan ==
  out.kind = "array" =>
    \A k \in 1..Len(raw) : \A n \in 1..Len(raw[k].details) :
      /\ raw[k].startLine <= raw[k].details[n].line
      /\ raw[k].details[n].line <= raw[k].endLine



\* node a, when it is scored, counts the operator token j: as the operator of
\* the binary expression a, or as an occurrence in the text of a
CountsOperator(t, a, j) ==
  \/ t[a].type = "binary_expression" /\ t[j].parent = a
  \/ t[a].type \in CSharpTextScoredKinds /\ a < j /\ j <= SubtreeEnd(t, a)

\* C28: within the analysis of one function each && or || occurrence
\* contributes to at most one detail: an operator counted by the text
\* heuristics of an ERROR, field_declaration or variable_declaration node is
\* not counted again when the children of that node are visited.
C28_OperatorsCountedOnce ==
  CSharpAnalyzed =>
    \A k \in 1..Len(raw) :
      \A j \in CSharpOwnNodes(tree, LocatedFunctions(grammar, tree)[k]) :
        tree[j].type \in {"&&", "||"}
          => Cardinality({ a \in CSharpOwnNodes(tree, LocatedFunctions(grammar, tree)[k]) :
                             /\ CountsOperator(tree, a, j)
                             /\ HasDetailAt(raw[k], tree, a) }) <= 1



\* the labels the reason functions fall back to
FallbackReasons ==
  {"unknown complexity source", "call expression", "binary null operator",
   "complexity in declaration", "complexity pattern (in preprocessor block)",
   "complexity pattern in declaration (preprocessor block)"}

\* C30: the fallback reason labels are unreachable: no recorded detail has the
\* reason "unknown complexity source", "call expression", "binary null
\* operator", "complexity in declaration", "complexity pattern (in
\* preprocessor block)" or "complexity pattern in declaration (preprocessor
\* block)".
C30_NoFallbackReasons ==
  \A d \in DetailsOf(raw) : d.reason \notin FallbackReasons

\* a C# function was analyzed that holds a declaration with && outside a
\* preprocessor block and an ERROR node, and the ERROR node has its detail
C30_Witness ==
  /\ CSharpAnalyzed
  /\ \E j \in 1..Len(tree) :
       /\ tree[j].type = "variable_declaration"
       /\ ~CSharpIsInPreprocessorBlock(tree, j)
       /\ CountLogicalOps(Lexemes(tree, j)) > 0
  /\ \E d \in DetailsOf(raw) : d.reason = "if statement (in preprocessor block)"



(***************************************************************************)
(* The configuration watcher of registerCodeLensProvider: configuration    *)
(* changes arrive, each change of the extension's section sets a timer,    *)
(* and a timer that is due calls provider.refresh().                       *)
(***************************************************************************)
CONFIG_SECTION == "cognitiveComplexity"

\* the sections a configuration change is about
Sections == {CONFIG_SECTION, "editor"}

\* the delay of the setTimeout of the watcher, in ms
RefreshDelay == 100

\* the time between two looks at the clock, in ms, and how many are followed
TickMs == 50
MaxTicks == 6
MaxChanges == 3

\* e.affectsConfiguration(section) for a change of configuration section s
AffectsConfiguration(s, section) == s = section

\* setTimeout(callback, delay) at time now, the callback being the refresh
\* for change e
SetTimeout(timers, e, delay, now) == Append(timers, [event |-> e, due |-> now + delay])

\* OnDidChangeConfiguration without the affectsConfiguration test
OnDidChangeConfigurationUnfiltered(timers, e, s, now) ==
  SetTimeout(timers, e, RefreshDelay, now)

\* the listener onConfigurationChanged subscribes, with the callback of
\* registerCodeLensProvider: change e of section s is delivered at time now
OnDidChangeConfiguration(timers, e, s, now) ==
  IF AffectsConfiguration(s, CONFIG_SECTION)
  THEN SetTimeout(timers, e, RefreshDelay, now)
  ELSE timers

\* the user or another extension changes a setting of section s
ConfigurationChange(s) ==
  /\ Len(watcher.changes) < MaxChanges
  /\ watcher.clock + RefreshDelay + TickMs <= MaxTicks * TickMs
  /\ watcher' = [watcher EXCEPT
       !.changes = Append(@, [section |-> s, at |-> watcher.clock]),
       !.timers = OnDidChangeConfiguration(@, Len(watcher.changes) + 1, s,
                                           watcher.clock)]
  /\ UNCHANGED <<analyzerVars, hostVars, walkVars>>

\* the oldest timer is due: provider.refresh() fires onDidChangeCodeLenses
TimerFires ==
  /\ watcher.timers # << >>
  /\ Head(watcher.timers).due <= watcher.clock
  /\ watcher' = [watcher EXCEPT
       !.timers = Tail(@),
       !.refreshes = Append(@, [event |-> Head(watcher.timers).event,
                                at |-> watcher.clock])]
  /\ UNCHANGED <<analyzerVars, hostVars, walkVars>>

\* time passes when no timer is due
Tick ==
  /\ watcher.clock + TickMs <= MaxTicks * TickMs
  /\ \A n \in 1..Len(watcher.timers) : watcher.timers[n].due > watcher.clock
  /\ watcher' = [watcher EXCEPT !.clock = @ + TickMs]
  /\ UNCHANGED <<analyzerVars, hostVars, walkVars>>

NextRefresh ==
  \/ \E s \in Sections : ConfigurationChange(s)
  \/ TimerFires
  \/ Tick

\* the event loop runs the timers that are due, and time passes
SpecRefresh ==
  InitHost /\ [][NextRefresh]_vars /\ WF_vars(TimerFires) /\ WF_vars(Tick)

\* the refresh calls made for change e
RefreshesFor(e) ==
  { r \in 1..Len(watcher.refreshes) : watcher.refreshes[r].event = e }

\* C29: every configuration change that affects the extension's section is
\* eventually followed by exactly one provider.refresh() call of its own,
\* RefreshDelay ms after the change (as soon as the clock shows it), several
\* changes are not coalesced into one refresh, and a change that does not
\* affect the section triggers no refresh.
C29_OneRefreshPerChange ==
  /\ [](\A e \in 1..Len(watcher.changes) :
          /\ Cardinality(RefreshesFor(e)) <= 1
          /\ watcher.changes[e].section # CONFIG_SECTION => RefreshesFor(e) = {}
          /\ \A r \in RefreshesFor(e) :
               /\ watcher.refreshes[r].at >= watcher.changes[e].at + RefreshDelay
               /\ watcher.refreshes[r].at < watcher.changes[e].at + RefreshDelay + TickMs)
  /\ [](\A r \in 1..Len(watcher.refreshes) :
          watcher.refreshes[r].event \in 1..Len(watcher.changes))
  /\ \A e \in 1..MaxChanges :
       (Len(watcher.changes) >= e /\ watcher.changes[e].section = CONFIG_SECTION)
         ~> (RefreshesFor(e) # {})

\* two changes of the section at the same time and a change of another
\* section have been delivered, and refresh was called for each of the two
C29_Witness ==
  /\ Len(watcher.changes) = 3
  /\ watcher.changes[1].section = CONFIG_SECTION
  /\ watcher.changes[2].section = CONFIG_SECTION
  /\ watcher.changes[1].at = watcher.changes[2].at
  /\ watcher.changes[3].section # CONFIG_SECTION
  /\ Len(watcher.refreshes) = 2
  /\ watcher.timers = << >>

====
